---- MODULE Spec2Model ----
(***************************************************************************)
(* A model of noisemaker's image-space effect pipeline (effects.py) and    *)
(* of its recursive point-distribution generator (points.py).              *)
(*                                                                         *)
(* Each function of the library is a state machine of its own, with its    *)
(* own variables and its own specification:                                *)
(*   SpecPost    post_process        (effects.py 10-61)                    *)
(*   SpecConv    convolve            (effects.py 179-205)                  *)
(*   SpecWarp    reindex, refract    (effects.py 286-338)                  *)
(*   SpecWorm    worms               (effects.py 389-457)                  *)
(*   SpecCloud   point_cloud         (points.py 41-241)                    *)
(*   SpecCloudLive  SpecCloud, run to its return                           *)
(*   SpecLattice point_cloud, on square and waffle lattices                *)
(*   SpecOrder   point_cloud, without random draws, three generations     *)
(* The variables of the functions a specification does not run stay at     *)
(* their idle values.                                                      *)
(***************************************************************************)
EXTENDS Integers, Sequences, FiniteSets, TLC

VARIABLES
    ppOpts,     \* post_process: the keyword options of the call
    ppPc,       \* post_process: the statement about to run
    ppTensor,   \* post_process: the stages applied to `tensor` so far, in order
    cvKernel,   \* convolve: [name, value] of the `kernel` argument
    cvShape,    \* convolve: the `shape` argument, <<height, width, channels>>
    cvTensor,   \* convolve: `tensor`, rows of pixels of channel values
    cvPc,       \* convolve: the statement about to run
    wpOp,       \* reindex / refract: which of the two is called
    wpShape,    \* reindex / refract: the `shape` argument
    wpTensor,   \* reindex / refract: the `tensor` argument
    wpDisp,     \* reindex / refract: `displacement`, in units of 1/DispDen
    wpRef,      \* reindex: `reference`; refract: <<reference_x, reference_y>>
    wpOut,      \* reindex / refract: the tensor returned
    wpPc,       \* reindex / refract: the statement about to run
    wmArgs,     \* worms: the arguments of the call
    count,      \* worms: the number of agents
    worms_y,    \* worms: the y of every agent, binary32
    worms_x,    \* worms: the x of every agent
    worms_stride,   \* worms: the stride of every agent
    worms_rot,  \* worms: the heading bias of every agent
    colors,     \* worms: the color of every agent
    index,      \* worms: the flow field, the heading at every pixel
    iterations, \* worms: the iteration count
    out,        \* worms: the canvas
    wmI,        \* worms: the loop variable i
    worm_positions, \* worms: the pixel <<y, x>> of every agent in this iteration
    exposure,   \* worms: the exposure of this iteration
    scattered,  \* worms: the result of tf.scatter_nd, as it is summed
    moved,      \* worms: the new <<worms_y, worms_x>>, as they are computed
    wmPending,  \* worms: the agents a vector operation has yet to process
    wmPc,       \* worms: the statement about to run
    pcArgs,     \* point_cloud: the arguments of the call
    cloud_x,    \* point_cloud: the output list x
    cloud_y,    \* point_cloud: the output list y
    seen,       \* point_cloud: the set `seen`
    active_set, \* point_cloud: the frontier, a set of <<x, y, generation>>
    generation, \* point_cloud: the generation of the element popped last
    next_points,    \* point_cloud: the points of `next` the loop has yet to visit
    pcPc        \* point_cloud: the statement about to run

postVars == <<ppOpts, ppPc, ppTensor>>

convVars == <<cvKernel, cvShape, cvTensor, cvPc>>

warpVars == <<wpOp, wpShape, wpTensor, wpDisp, wpRef, wpOut, wpPc>>

wormVars ==
    <<wmArgs, count, worms_y, worms_x, worms_stride, worms_rot, colors, index,
      iterations, out, wmI, worm_positions, exposure, scattered, moved, wmPending,
      wmPc>>

cloudVars ==
    <<pcArgs, cloud_x, cloud_y, seen, active_set, generation, next_points, pcPc>>

vars ==
    <<ppOpts, ppPc, ppTensor, cvKernel, cvShape, cvTensor, cvPc,
      wpOp, wpShape, wpTensor, wpDisp, wpRef, wpOut, wpPc,
      wmArgs, count, worms_y, worms_x, worms_stride, worms_rot, colors, index,
      iterations, out, wmI, worm_positions, exposure, scattered, moved, wmPending,
      wmPc, pcArgs, cloud_x, cloud_y, seen, active_set, generation, next_points, pcPc>>

\* What a step of each function leaves alone: the variables of the others.
notPost == <<convVars, warpVars, wormVars, cloudVars>>

notConv == <<postVars, warpVars, wormVars, cloudVars>>

notWarp == <<postVars, convVars, wormVars, cloudVars>>

notWorm == <<postVars, convVars, warpVars, cloudVars>>

notCloud == <<postVars, convVars, warpVars, wormVars>>

(***************************************************************************)
(* Generic helpers.                                                        *)
(***************************************************************************)
Range(s) == {s[i] : i \in 1..Len(s)}

Min2(a, b) == IF a <= b THEN a ELSE b

Max2(a, b) == IF a >= b THEN a ELSE b

Abs(a) == IF a < 0 THEN -a ELSE a

(***************************************************************************)
(* post_process (effects.py 10-61).                                        *)
(*                                                                         *)
(* `tensor` is carried symbolically, as the sequence of the stages that    *)
(* were applied to it: the stages themselves are modelled further down.    *)
(***************************************************************************)

\* Values of the displacement options: 0 disables the stage (`!= 0`).
RangeValues == {-1, 0, 1}

\* Values of `clut`: absent, an empty file name (falsy), a file name.
ClutValues == {"None", "", "clut.png"}

\* Python truthiness of `clut` (effects.py 42).
ClutGiven(clut) == clut \notin {"None", ""}

PostOptions ==
    [refract_range : RangeValues, reindex_range : RangeValues, clut : ClutValues,
     with_worms : BOOLEAN, deriv : BOOLEAN, with_sobel : BOOLEAN,
     with_normal_map : BOOLEAN]

PostIdle == ppOpts = "idle" /\ ppPc = "idle" /\ ppTensor = <<>>

PostStart ==
    /\ ppOpts \in PostOptions
    /\ ppPc = "refract"
    /\ ppTensor = <<>>

\* One `if` statement of post_process: apply `stage` when `enabled`, go on to `next`.
PostStage(at, enabled, stage, next) ==
    /\ ppPc = at
    /\ ppTensor' = IF enabled THEN Append(ppTensor, stage) ELSE ppTensor
    /\ ppPc' = next
    /\ UNCHANGED <<ppOpts, notPost>>

\* effects.py 36-37
PostRefract ==
    PostStage("refract", ppOpts.refract_range # 0, "refract", "reindex")

PostReindexUnguarded ==
    PostStage("reindex", TRUE, "reindex", "clut")

\* effects.py 39-40
PostReindex ==
    PostStage("reindex", ppOpts.reindex_range # 0, "reindex", "clut")

\* effects.py 42-46: color_map when clut is truthy, normalize otherwise
PostClut ==
    /\ ppPc = "clut"
    /\ ppTensor' = Append(ppTensor,
                          IF ClutGiven(ppOpts.clut) THEN "color_map" ELSE "normalize")
    /\ ppPc' = "worms"
    /\ UNCHANGED <<ppOpts, notPost>>

\* effects.py 48-50
PostWorms ==
    PostStage("worms", ppOpts.with_worms, "worms", "deriv")

\* effects.py 52-53
PostDeriv ==
    PostStage("deriv", ppOpts.deriv, "derivative", "sobel")

\* effects.py 55-56
PostSobel ==
    PostStage("sobel", ppOpts.with_sobel, "sobel", "normal_map")

\* effects.py 58-61
PostNormalMap ==
    PostStage("normal_map", ppOpts.with_normal_map, "normal_map", "done")

(***************************************************************************)
(* Claims about post_process.                                              *)
(***************************************************************************)

\* The position of each stage in the fixed application order of the spec.
StageRank(stage) ==
    CASE stage = "refract" -> 1
      [] stage = "reindex" -> 2
      [] stage = "color_map" -> 3
      [] stage = "normalize" -> 3
      [] stage = "worms" -> 4
      [] stage = "derivative" -> 5
      [] stage = "sobel" -> 6
      [] stage = "normal_map" -> 7

\* Whether the options of the call enable `stage`.
StageEnabled(stage) ==
    CASE stage = "refract" -> ppOpts.refract_range # 0
      [] stage = "reindex" -> ppOpts.reindex_range # 0
      [] stage = "color_map" -> ClutGiven(ppOpts.clut)
      [] stage = "normalize" -> ~ClutGiven(ppOpts.clut)
      [] stage = "worms" -> ppOpts.with_worms
      [] stage = "derivative" -> ppOpts.deriv
      [] stage = "sobel" -> ppOpts.with_sobel
      [] stage = "normal_map" -> ppOpts.with_normal_map

AllStages ==
    {"refract", "reindex", "color_map", "normalize", "worms", "derivative",
     "sobel", "normal_map"}

\* C1: in every call of post_process the stages run in the fixed order refract,
\* reindex, (color_map or normalize), worms, derivative, sobel, normal_map: the
\* ranks of the stages applied so far are strictly increasing, a disabled stage
\* is never applied, and when the call returns every enabled stage was applied
\* and exactly one of color_map / normalize was (color_map iff a clut is given).
C1_FixedStageOrder ==
    /\ \A i, j \in 1..Len(ppTensor) :
          i < j => StageRank(ppTensor[i]) < StageRank(ppTensor[j])
    /\ \A i \in 1..Len(ppTensor) : StageEnabled(ppTensor[i])
    /\ ppPc = "done" =>
          /\ \A s \in AllStages : StageEnabled(s) => s \in Range(ppTensor)
          /\ Cardinality(Range(ppTensor) \cap {"color_map", "normalize"}) = 1
          /\ ("color_map" \in Range(ppTensor)) <=> ClutGiven(ppOpts.clut)

\* C1 witness: a finished call in which every stage was enabled and ran.
C1_Witness ==
    /\ ppPc = "done"
    /\ ppTensor = <<"refract", "reindex", "color_map", "worms", "derivative",
                    "sobel", "normal_map">>

(***************************************************************************)
(* convolve (effects.py 179-205).                                          *)
(*                                                                         *)
(* A tensor is a sequence of rows, a row a sequence of pixels, a pixel a   *)
(* sequence of channel values. normalize leaves fractions <<num, den>>.    *)
(***************************************************************************)

\* Largest height and width of the tensors convolve is given.
MaxDim == 7

\* Largest channel count of the tensors convolve is given.
MaxChannels == 1

\* ConvKernel (effects.py 82-160). `rand` is drawn once, at import, from a normal
\* distribution: RandKernelDraws are the draws of the model, rounded to integers.
KernelCatalog ==
    [emboss |-> <<<<0, 2, 4>>, <<-2, 1, 2>>, <<-4, -2, 0>>>>,
     shadow |-> <<<<0, 1, 1, 1, 0>>, <<-1, -2, 4, 2, 1>>, <<-1, -4, 2, 4, 1>>,
                  <<-1, -2, -4, 2, 1>>, <<0, -1, -1, -1, 0>>>>,
     edges |-> <<<<1, 2, 1>>, <<2, -12, 2>>, <<1, 2, 1>>>>,
     sharpen |-> <<<<0, -1, 0>>, <<-1, 5, -1>>, <<0, -1, 0>>>>,
     unsharp_mask |-> <<<<1, 4, 6, 4, 1>>, <<4, 16, 24, 16, 4>>,
                        <<6, 24, -476, 24, 6>>, <<4, 16, 24, 16, 4>>,
                        <<1, 4, 6, 4, 1>>>>,
     invert |-> <<<<0, 0, 0>>, <<0, -1, 0>>, <<0, 0, 0>>>>,
     sobel_x |-> <<<<1, 0, -1>>, <<2, 0, -2>>, <<1, 0, -1>>>>,
     sobel_y |-> <<<<1, 2, 1>>, <<0, 0, 0>>, <<-1, -2, -1>>>>]

RandKernelDraws ==
    {[i \in 1..5 |-> [j \in 1..5 |-> IF (i + j) % 2 = 0 THEN 1 ELSE 0]],
     [i \in 1..5 |-> [j \in 1..5 |-> IF i = j THEN 1 ELSE -1]]}

Kernels ==
    {[name |-> n, value |-> KernelCatalog[n]] : n \in DOMAIN KernelCatalog}
    \cup {[name |-> "rand", value |-> k] : k \in RandKernelDraws}

\* The tensors of the model: each pixel numbered by its place, or a checkerboard.
ConvTensors(h, w, c) ==
    {[y \in 1..h |-> [x \in 1..w |-> [ch \in 1..c |-> (y - 1) * w + x + ch - 1]]],
     [y \in 1..h |-> [x \in 1..w |-> [ch \in 1..c |-> (y + x + ch) % 2]]]}

Height(t) == Len(t)

Width(t) == IF Len(t) = 0 THEN 0 ELSE Len(t[1])

\* Python's s[a:b] for 0 <= a: the elements at (0-based) a .. b-1 that exist.
Slice(s, a, b) == SubSeq(s, a + 1, Min2(b, Len(s)))

\* tensor[y0:y1, x0:x1]
Crop(t, y0, y1, x0, x1) ==
    LET rows == Slice(t, y0, y1)
    IN  [y \in 1..Len(rows) |-> Slice(rows[y], x0, x1)]

\* tf.tile(tensor, [3, 3, 1])
Tile3(t) ==
    LET h == Height(t)
        w == Width(t)
    IN  [y \in 1..(3 * h) |-> [x \in 1..(3 * w) |->
            t[((y - 1) % h) + 1][((x - 1) % w) + 1]]]

RECURSIVE SumOver(_, _)
\* The sum of f[i] over the set of indices S.
SumOver(f, S) ==
    IF S = {} THEN 0
    ELSE LET i == CHOOSE j \in S : TRUE
         IN  f[i] + SumOver(f, S \ {i})

\* tf.nn.depthwise_conv2d([tensor], kernel, [1,1,1,1], "VALID")[0]: no padding,
\* each channel convolved on its own; defined when the input is no smaller
\* than the kernel.
DepthwiseValid(t, k) ==
    LET l == Len(k)
        cells == (1..l) \X (1..l)
    IN  [y \in 1..(Height(t) - l + 1) |-> [x \in 1..(Width(t) - l + 1) |->
            [ch \in 1..Len(t[1][1]) |->
                SumOver([ij \in cells |->
                            t[y + ij[1] - 1][x + ij[2] - 1][ch] * k[ij[1]][ij[2]]],
                        cells)]]]

Values(t) == {t[y][x][ch] : y \in 1..Height(t), x \in 1..Width(t), ch \in 1..Len(t[1][1])}

SetMin(S) == CHOOSE m \in S : \A n \in S : m <= n

SetMax(S) == CHOOSE m \in S : \A n \in S : m >= n

\* normalize (effects.py 208-216): (tensor - min) / (max - min), as fractions
\* <<num, den>>; den = 0 is the division by zero of a constant tensor.
Normalize(t) ==
    LET lo == SetMin(Values(t))
        hi == SetMax(Values(t))
    IN  [y \in 1..Height(t) |-> [x \in 1..Width(t) |->
            [ch \in 1..Len(t[1][1]) |-> <<t[y][x][ch] - lo, hi - lo>>]]]

\* tf.abs(tensor - .5) * 2 on fractions (effects.py 203)
EdgesMagnitude(t) ==
    [y \in 1..Height(t) |-> [x \in 1..Width(t) |->
        [ch \in 1..Len(t[1][1]) |->
            <<Abs(2 * t[y][x][ch][1] - t[y][x][ch][2]), t[y][x][ch][2]>>]]]

\* tf.cast(shape[0] / 2, tf.int32), tf.cast(shape[1] / 2, tf.int32)
HalfHeight == cvShape[1] \div 2

HalfWidth == cvShape[2] \div 2

ConvIdle == cvKernel = "idle" /\ cvShape = <<>> /\ cvTensor = <<>> /\ cvPc = "idle"

ConvStart ==
    /\ cvKernel \in Kernels
    /\ \E h, w \in 1..MaxDim, c \in 1..MaxChannels :
          /\ cvShape = <<h, w, c>>
          /\ cvTensor \in ConvTensors(h, w, c)
    /\ cvPc = "tile"

\* effects.py 196
ConvTile ==
    /\ cvPc = "tile"
    /\ cvTensor' = Tile3(cvTensor)
    /\ cvPc' = "crop2"
    /\ UNCHANGED <<cvKernel, cvShape, notConv>>

\* effects.py 197
ConvCrop2 ==
    /\ cvPc = "crop2"
    /\ cvTensor' = Crop(cvTensor, HalfHeight, cvShape[1] * 2 + HalfHeight,
                        HalfWidth, cvShape[2] * 2 + HalfWidth)
    /\ cvPc' = "conv"
    /\ UNCHANGED <<cvKernel, cvShape, notConv>>

\* effects.py 198; an input smaller than the kernel has no VALID output and
\* TensorFlow refuses it.
ConvDepthwise ==
    /\ cvPc = "conv"
    /\ IF Height(cvTensor) >= Len(cvKernel.value) /\ Width(cvTensor) >= Len(cvKernel.value)
       THEN cvTensor' = DepthwiseValid(cvTensor, cvKernel.value) /\ cvPc' = "crop1"
       ELSE cvTensor' = cvTensor /\ cvPc' = "error"
    /\ UNCHANGED <<cvKernel, cvShape, notConv>>

\* effects.py 199
ConvCrop1 ==
    /\ cvPc = "crop1"
    /\ cvTensor' = Crop(cvTensor, HalfHeight, cvShape[1] + HalfHeight,
                        HalfWidth, cvShape[2] + HalfWidth)
    /\ cvPc' = "normalize"
    /\ UNCHANGED <<cvKernel, cvShape, notConv>>

\* effects.py 200
ConvNormalize ==
    /\ cvPc = "normalize"
    /\ IF Height(cvTensor) > 0 /\ Width(cvTensor) > 0
       THEN cvTensor' = Normalize(cvTensor)
       ELSE cvTensor' = cvTensor
    /\ cvPc' = "edges"
    /\ UNCHANGED <<cvKernel, cvShape, notConv>>

\* effects.py 202-205
ConvEdges ==
    /\ cvPc = "edges"
    /\ cvTensor' = IF cvKernel.name = "edges" THEN EdgesMagnitude(cvTensor)
                   ELSE cvTensor
    /\ cvPc' = "done"
    /\ UNCHANGED <<cvKernel, cvShape, notConv>>

(***************************************************************************)
(* Claims about convolve.                                                  *)
(***************************************************************************)

\* C3: for every kernel of the catalog and every grid whose height and width
\* are each at least the kernel size, convolve returns a grid of exactly the
\* height and width of its input.
C3_ConvolveKeepsShape ==
    (/\ cvPc = "done"
     /\ cvShape[1] >= Len(cvKernel.value)
     /\ cvShape[2] >= Len(cvKernel.value))
    => (Height(cvTensor) = cvShape[1] /\ Width(cvTensor) = cvShape[2])

\* C3, where it holds: a 5x5 kernel on a 7x7 grid returns 7x7.
C3_Witness ==
    /\ cvPc = "done"
    /\ Len(cvKernel.value) = 5
    /\ cvShape[1] = 7 /\ cvShape[2] = 7
    /\ Height(cvTensor) = 7 /\ Width(cvTensor) = 7


(***************************************************************************)
(* reindex, refract and their helpers (effects.py 286-338, 517-630).       *)
(*                                                                         *)
(* Real values are exact fractions: a value of value_map is <<num, den>>,  *)
(* a displacement is a multiple of 1/DispDen, a draw of random.random() a  *)
(* multiple of 1/RandDen. Indices (row, column) are 0-based, as in the     *)
(* code; the sequences that hold a tensor are 1-based.                     *)
(***************************************************************************)

\* Largest height and width of the tensors reindex and refract are given.
MaxWarpDim == 2

\* Largest channel value of those tensors.
MaxWarpValue == 2

\* Displacements are multiples of 1/DispDen, between -MaxDisp and MaxDisp.
DispDen == 2

MaxDisp == 2

\* random.random() draws k/RandDen, 0 <= k < RandDen.
RandDen == 2

RandomDraws == 0..(RandDen - 1)

\* Python's int() and tf.cast(_, tf.int32) of the fraction n/d, d > 0: truncation
\* toward zero.
Trunc(n, d) == IF n >= 0 THEN n \div d ELSE -((-n) \div d)

\* value_map (effects.py 517-523): the channels summed, then normalize.
ValueMap(t) ==
    LET summed == [y \in 1..Height(t) |-> [x \in 1..Width(t) |->
                      <<SumOver(t[y][x], 1..Len(t[y][x]))>>]]
        norm == Normalize(summed)
    IN  [y \in 1..Height(t) |-> [x \in 1..Width(t) |-> norm[y][x][1]]]

\* row_index (effects.py 558-580): the value at (y, x) is x.
RowIndex(shape) == [y \in 1..shape[1] |-> [x \in 1..shape[2] |-> x - 1]]

\* column_index (effects.py 583-609): the value at (y, x) is y.
ColumnIndex(shape) == [y \in 1..shape[1] |-> [x \in 1..shape[2] |-> y - 1]]

\* int(height * .5 + random.random() * height * .5) (effects.py 626)
OffsetY(height, r) == (height * (RandDen + r)) \div (2 * RandDen)

\* int(random.random() * width * .5) (effects.py 627)
OffsetX(width, r) == (r * width) \div (2 * RandDen)

\* offset_index (effects.py 612-630), ry and rx its two draws of random.random():
\* the pair <<y, x>> of indices at every position.
OffsetIndex(y_index, height, x_index, width, ry, rx) ==
    [y \in 1..Len(y_index) |-> [x \in 1..Len(y_index[y]) |->
        <<(y_index[y][x] + OffsetY(height, ry)) % height,
          (x_index[y][x] + OffsetX(width, rx)) % width>>]]

\* tf.gather_nd(params, indices): at every position the element of params at
\* the (0-based) pair of indices there.
GatherNd(params, indices) ==
    [y \in 1..Len(indices) |-> [x \in 1..Len(indices[y]) |->
        params[indices[y][x][1] + 1][indices[y][x][2] + 1]]]

\* tf.cast((reference * displacement * mod + reference) % mod, tf.int32)
\* (effects.py 306) for reference = ref[1]/ref[2] and displacement = disp/DispDen.
ReindexOffset(ref, disp, mod) ==
    ((ref[1] * (disp * mod + DispDen)) \div (ref[2] * DispDen)) % mod

\* tf.cast(reference * size, tf.int32) (effects.py 338) for
\* reference = value_map * displacement = (ref[1] * disp) / (ref[2] * DispDen)
Displace(ref, disp, size) == Trunc(ref[1] * disp * size, ref[2] * DispDen)

WarpTensors(h, w) ==
    [1..h -> [1..w -> [1..1 -> 0..MaxWarpValue]]]

WarpIdle ==
    /\ wpOp = "idle" /\ wpShape = <<>> /\ wpTensor = <<>> /\ wpDisp = 0
    /\ wpRef = <<>> /\ wpOut = <<>> /\ wpPc = "idle"

WarpStart ==
    /\ wpOp \in {"reindex", "refract"}
    /\ \E h, w \in 1..MaxWarpDim :
          /\ wpShape = <<h, w, 1>>
          /\ wpTensor \in WarpTensors(h, w)
    /\ wpDisp \in (-MaxDisp)..MaxDisp
    /\ wpRef = <<>>
    /\ wpOut = <<>>
    /\ wpPc = "value_map"

\* effects.py 303 and 330: value_map(tensor, shape). On a constant tensor
\* normalize divides zero by zero, the indices are cast from NaN and what is
\* gathered is unspecified: the call leaves the model.
WarpValueMap ==
    /\ wpPc = "value_map"
    /\ LET ref == ValueMap(wpTensor)
       IN  IF ref[1][1][2] = 0
           THEN wpRef' = wpRef /\ wpPc' = "nan"
           ELSE /\ wpRef' = IF wpOp = "reindex" THEN ref ELSE <<ref>>
                /\ wpPc' = IF wpOp = "reindex" THEN "gather" ELSE "reference_y"
    /\ UNCHANGED <<wpOp, wpShape, wpTensor, wpDisp, wpOut, notWarp>>

\* effects.py 305-310
Reindex ==
    /\ wpOp = "reindex" /\ wpPc = "gather"
    /\ LET mod == Min2(wpShape[1], wpShape[2])
           offset == [y \in 1..wpShape[1] |-> [x \in 1..wpShape[2] |->
                         ReindexOffset(wpRef[y][x], wpDisp, mod)]]
       IN  wpOut' = GatherNd(wpTensor,
                             [y \in 1..wpShape[1] |-> [x \in 1..wpShape[2] |->
                                 <<offset[y][x], offset[y][x]>>]])
    /\ wpPc' = "done"
    /\ UNCHANGED <<wpOp, wpShape, wpTensor, wpDisp, wpRef, notWarp>>

\* effects.py 332-336: reference_y is reference_x gathered at an offset index
RefractReferenceY ==
    /\ wpOp = "refract" /\ wpPc = "reference_y"
    /\ \E ry, rx \in RandomDraws :
          wpRef' = <<wpRef[1],
                     GatherNd(wpRef[1],
                              OffsetIndex(ColumnIndex(wpShape), wpShape[1],
                                          RowIndex(wpShape), wpShape[2], ry, rx))>>
    /\ wpPc' = "gather"
    /\ UNCHANGED <<wpOp, wpShape, wpTensor, wpDisp, wpOut, notWarp>>

\* effects.py 338
Refract ==
    /\ wpOp = "refract" /\ wpPc = "gather"
    /\ \E ry, rx \in RandomDraws :
          LET height == wpShape[1]
              width == wpShape[2]
              y_index == ColumnIndex(wpShape)
              x_index == RowIndex(wpShape)
              ys == [y \in 1..height |-> [x \in 1..width |->
                        y_index[y][x] + Displace(wpRef[2][y][x], wpDisp, height)]]
              xs == [y \in 1..height |-> [x \in 1..width |->
                        x_index[y][x] + Displace(wpRef[1][y][x], wpDisp, width)]]
          IN  wpOut' = GatherNd(wpTensor, OffsetIndex(ys, height, xs, width, ry, rx))
    /\ wpPc' = "done"
    /\ UNCHANGED <<wpOp, wpShape, wpTensor, wpDisp, wpRef, notWarp>>

(***************************************************************************)
(* Claims about reindex and refract.                                       *)
(***************************************************************************)

\* C4: reindex and refract with displacement = 0 return the identity map: the
\* output value at every position equals the input value there, whatever the
\* offsets offset_index drew.
C4_ZeroDisplacementIsIdentity ==
    (wpPc = "done" /\ wpDisp = 0) => wpOut = wpTensor

\* C4 for reindex alone.
C4_ReindexIdentity ==
    (wpOp = "reindex" /\ wpPc = "done" /\ wpDisp = 0) => wpOut = wpTensor

\* C4 for refract alone.
C4_RefractIdentity ==
    (wpOp = "refract" /\ wpPc = "done" /\ wpDisp = 0) => wpOut = wpTensor

\* What the code does at displacement = 0. reindex reads the diagonal: every
\* pixel becomes tensor[0][0], or tensor[1][1] where value_map is 1 and the grid
\* has two rows and columns. refract is a toroidal shift by the offsets drawn.
C4_ZeroDisplacementActual ==
    (wpPc = "done" /\ wpDisp = 0) =>
        IF wpOp = "reindex"
        THEN \A y \in 1..wpShape[1], x \in 1..wpShape[2] :
                wpOut[y][x] \in {wpTensor[1][1],
                                 wpTensor[Min2(2, wpShape[1])][Min2(2, wpShape[2])]}
        ELSE \E ry, rx \in RandomDraws :
                \A y \in 1..wpShape[1], x \in 1..wpShape[2] :
                    wpOut[y][x] =
                        wpTensor[((y - 1 + OffsetY(wpShape[1], ry)) % wpShape[1]) + 1]
                                [((x - 1 + OffsetX(wpShape[2], rx)) % wpShape[2]) + 1]


(***************************************************************************)
(* Floating point.  points.py computes in Python floats (IEEE 754 binary64)*)
(* and the tensors of effects.py hold binary32 values: every operation     *)
(* returns the exact result rounded to 53 (24) significant bits, ties to   *)
(* even.  A value is the record [neg, man, exp] standing for               *)
(* (-1)^neg * man * 2^exp, with man odd, or Zero.  The significand is a    *)
(* natural number of any size, held as its digits in base 2^15, least      *)
(* significant first, without leading zeros.  Exponent overflow, underflow,*)
(* infinities and NaN do not arise from the inputs of the model.           *)
(***************************************************************************)
Base == 2^15

RECURSIVE NatTrim(_)
NatTrim(n) ==
    IF n = <<>> THEN <<>>
    ELSE IF n[Len(n)] = 0 THEN NatTrim(SubSeq(n, 1, Len(n) - 1)) ELSE n

RECURSIVE NatFromInt(_)
NatFromInt(k) == IF k = 0 THEN <<>> ELSE <<k % Base>> \o NatFromInt(k \div Base)

RECURSIVE NatToInt(_)
NatToInt(n) == IF n = <<>> THEN 0 ELSE n[1] + Base * NatToInt(Tail(n))

RECURSIVE NatAddC(_, _, _)
NatAddC(a, b, c) ==
    IF a = <<>> /\ b = <<>> THEN (IF c = 0 THEN <<>> ELSE <<c>>)
    ELSE LET s == (IF a = <<>> THEN 0 ELSE a[1]) + (IF b = <<>> THEN 0 ELSE b[1]) + c
         IN  <<s % Base>> \o NatAddC(IF a = <<>> THEN <<>> ELSE Tail(a),
                                     IF b = <<>> THEN <<>> ELSE Tail(b),
                                     s \div Base)

NatAdd(a, b) == NatAddC(a, b, 0)

\* a - b - c, for a >= b + c
RECURSIVE NatSubB(_, _, _)
NatSubB(a, b, c) ==
    IF a = <<>> THEN <<>>
    ELSE LET d == a[1] - (IF b = <<>> THEN 0 ELSE b[1]) - c
         IN  <<d % Base>> \o NatSubB(Tail(a), IF b = <<>> THEN <<>> ELSE Tail(b),
                                     IF d < 0 THEN 1 ELSE 0)

NatSub(a, b) == NatTrim(NatSubB(a, b, 0))

RECURSIVE NatLess(_, _)
NatLess(a, b) ==
    IF Len(a) # Len(b) THEN Len(a) < Len(b)
    ELSE IF a = <<>> THEN FALSE
    ELSE IF a[Len(a)] # b[Len(b)] THEN a[Len(a)] < b[Len(b)]
    ELSE NatLess(SubSeq(a, 1, Len(a) - 1), SubSeq(b, 1, Len(b) - 1))

\* a * k + c, for k and c below Base
RECURSIVE NatMulC(_, _, _)
NatMulC(a, k, c) ==
    IF a = <<>> THEN NatFromInt(c)
    ELSE LET s == a[1] * k + c
         IN  <<s % Base>> \o NatMulC(Tail(a), k, s \div Base)

NatMulSmall(a, k) == NatTrim(NatMulC(a, k, 0))

RECURSIVE NatMul(_, _)
NatMul(a, b) ==
    IF a = <<>> \/ b = <<>> THEN <<>>
    ELSE LET rest == NatMul(a, Tail(b))
         IN  NatAdd(NatMulSmall(a, b[1]), IF rest = <<>> THEN <<>> ELSE <<0>> \o rest)

\* <<digits of (r * Base^Len(a) + a) \div d, (r * Base^Len(a) + a) % d>>, for
\* r < d < Base
RECURSIVE NatDivR(_, _, _)
NatDivR(a, d, r) ==
    IF a = <<>> THEN <<<<>>, r>>
    ELSE LET t == r * Base + a[Len(a)]
             rest == NatDivR(SubSeq(a, 1, Len(a) - 1), d, t % d)
         IN  <<rest[1] \o <<t \div d>>, rest[2]>>

NatDivSmall(a, d) == LET qr == NatDivR(a, d, 0) IN <<NatTrim(qr[1]), qr[2]>>

\* a * 2^k
NatShl(a, k) ==
    IF a = <<>> THEN <<>>
    ELSE [i \in 1..(k \div 15) |-> 0] \o NatMulSmall(a, 2^(k % 15))

\* a \div 2^k
NatShr(a, k) ==
    IF k \div 15 >= Len(a) THEN <<>>
    ELSE NatDivSmall(SubSeq(a, (k \div 15) + 1, Len(a)), 2^(k % 15))[1]

\* bit i of a, bit 0 the least significant
NatBit(a, i) ==
    IF i \div 15 >= Len(a) THEN 0 ELSE (a[(i \div 15) + 1] \div 2^(i % 15)) % 2

\* a % 2^k = 0
NatLowZero(a, k) == \A i \in 0..(k - 1) : NatBit(a, i) = 0

RECURSIVE IntBitLen(_)
IntBitLen(k) == IF k = 0 THEN 0 ELSE 1 + IntBitLen(k \div 2)

NatBitLen(a) == IF a = <<>> THEN 0 ELSE 15 * (Len(a) - 1) + IntBitLen(a[Len(a)])

\* Long division of the bits hi .. lo of a by b # 0, r < b being the
\* remainder of the bits above them: <<quotient, remainder>>.  The bits are
\* halved rather than taken one by one
RECURSIVE NatDivBits(_, _, _, _, _)
NatDivBits(r, a, hi, lo, b) ==
    IF hi = lo
    THEN LET t == NatAdd(NatShl(r, 1), IF NatBit(a, hi) = 1 THEN <<1>> ELSE <<>>)
         IN  IF NatLess(t, b) THEN <<<<>>, t>> ELSE <<<<1>>, NatSub(t, b)>>
    ELSE LET mid == (hi + lo + 1) \div 2
             upper == NatDivBits(r, a, hi, mid, b)
             lower == NatDivBits(upper[2], a, mid - 1, lo, b)
         IN  <<NatAdd(NatShl(upper[1], mid - lo), lower[1]), lower[2]>>

\* <<a \div b, a % b>> for b # 0
NatDivMod(a, b) ==
    IF a = <<>> THEN <<<<>>, <<>>>> ELSE NatDivBits(<<>>, a, NatBitLen(a) - 1, 0, b)

\* the number of trailing zero bits of a # 0
RECURSIVE IntTrailingZeros(_)
IntTrailingZeros(k) == IF k % 2 = 1 THEN 0 ELSE 1 + IntTrailingZeros(k \div 2)

RECURSIVE NatTrailingZeros(_)
NatTrailingZeros(a) ==
    IF a[1] = 0 THEN 15 + NatTrailingZeros(Tail(a)) ELSE IntTrailingZeros(a[1])

Zero == [neg |-> FALSE, man |-> <<>>, exp |-> 0]

\* the value (-1)^neg * man * 2^exp
FlNorm(neg, man, exp) ==
    IF man = <<>> THEN Zero
    ELSE LET z == NatTrailingZeros(man)
         IN  [neg |-> neg, man |-> NatShr(man, z), exp |-> exp + z]

\* (-1)^neg * man * 2^exp rounded to p significant bits, ties to even
FlRound(p, neg, man, exp) ==
    LET len == NatBitLen(man) IN
    IF len <= p THEN FlNorm(neg, man, exp)
    ELSE LET k == len - p
             q == NatShr(man, k)
             up == /\ NatBit(man, k - 1) = 1
                   /\ (~NatLowZero(man, k - 1) \/ NatBit(q, 0) = 1)
         IN  FlNorm(neg, IF up THEN NatAdd(q, <<1>>) ELSE q, exp + k)

FlFromInt(k) == FlNorm(k < 0, NatFromInt(IF k < 0 THEN -k ELSE k), 0)

FlNeg(a) == IF a = Zero THEN Zero ELSE [a EXCEPT !.neg = ~a.neg]

FlAdd(p, a, b) ==
    IF a = Zero THEN b
    ELSE IF b = Zero THEN a
    ELSE LET e == IF a.exp < b.exp THEN a.exp ELSE b.exp
             x == NatShl(a.man, a.exp - e)
             y == NatShl(b.man, b.exp - e)
         IN  IF a.neg = b.neg THEN FlRound(p, a.neg, NatAdd(x, y), e)
             ELSE IF x = y THEN Zero
             ELSE IF NatLess(y, x) THEN FlRound(p, a.neg, NatSub(x, y), e)
             ELSE FlRound(p, b.neg, NatSub(y, x), e)

FlSub(p, a, b) == FlAdd(p, a, FlNeg(b))

FlMul(p, a, b) ==
    IF a = Zero \/ b = Zero THEN Zero
    ELSE FlRound(p, a.neg # b.neg, NatMul(a.man, b.man), a.exp + b.exp)

\* a / d for an integer 0 < d < Base: the quotient of the significand to
\* at least p + 2 bits, with a last bit that is set if the division left a
\* remainder
FlDivInt(p, a, d) ==
    IF a = Zero THEN Zero
    ELSE LET qr == NatDivSmall(NatShl(a.man, p + 17), d)
         IN  FlRound(p, a.neg,
                     NatAdd(NatShl(qr[1], 1), IF qr[2] = 0 THEN <<>> ELSE <<1>>),
                     a.exp - (p + 17) - 1)

\* a / b for b # 0, likewise
FlDiv(p, a, b) ==
    IF a = Zero THEN Zero
    ELSE LET s == Max2(p + 2 + NatBitLen(b.man) - NatBitLen(a.man), 0)
             qr == NatDivMod(NatShl(a.man, s), b.man)
         IN  FlRound(p, a.neg # b.neg,
                     NatAdd(NatShl(qr[1], 1), IF qr[2] = <<>> THEN <<>> ELSE <<1>>),
                     a.exp - b.exp - s - 1)

FlAbs(a) == [a EXCEPT !.neg = FALSE]

\* a < b
FlLess(a, b) == LET d == FlAdd(53, a, FlNeg(b)) IN d # Zero /\ d.neg

\* the integer part of |a|
FlFloorAbs(a) ==
    IF a.exp >= 0 THEN NatShl(a.man, a.exp) ELSE NatShr(a.man, -a.exp)

\* int(a): truncation towards zero
FlTrunc(a) == IF a.neg THEN -NatToInt(FlFloorAbs(a)) ELSE NatToInt(FlFloorAbs(a))

\* C's fmod(a, w) for an integer w > 0: exact, with the sign of a
FlFmod(a, w) ==
    IF a.exp >= 0 THEN FlFromInt((IF a.neg THEN -1 ELSE 1) * (NatToInt(FlFloorAbs(a)) % w))
    ELSE LET whole == FlFloorAbs(a)
             fract == NatSub(a.man, NatShl(whole, -a.exp))
         IN  FlNorm(a.neg, NatAdd(fract, NatShl(NatFromInt(NatToInt(whole) % w), -a.exp)),
                    a.exp)

\* Python's a % w on floats, for an integer w > 0 (floatobject.c, float_rem):
\* fmod(a, w), plus w if that is negative
FlMod(p, a, w) ==
    LET mod == FlFmod(a, w)
    IN  IF mod # Zero /\ mod.neg THEN FlAdd(p, mod, FlFromInt(w)) ELSE mod

(***************************************************************************)
(* worms (effects.py 389-457).                                             *)
(*                                                                         *)
(* The tensors hold binary32 values, and so do the positions, strides and  *)
(* headings of the agents; the exposure is a Python float.  The vector     *)
(* operations of an iteration (tf.scatter_nd, and the element-wise update  *)
(* of the positions) process the agents one at a time, in any order, into  *)
(* a result of their own (`scattered`, `moved`), which is then assigned.   *)
(***************************************************************************)

\* Largest height and width of the grid worms is given.
MaxWormDim == 2

\* Largest number of agents (`count`) of a call.
MaxAgents == 3

\* density is 0, 1/DensityDen or MaxDensity/DensityDen.
DensityDen == 2

MaxDensity == 3

\* duration is 0, 1 or MaxDuration.
MaxDuration == 3

\* The quiet NaN of binary32: 0/0, and every operation on it.
NaN == [neg |-> FALSE, man |-> <<>>, exp |-> 1]

Add32(a, b) == IF a = NaN \/ b = NaN THEN NaN ELSE FlAdd(24, a, b)

Sub32(a, b) == IF a = NaN \/ b = NaN THEN NaN ELSE FlSub(24, a, b)

Mul32(a, b) == IF a = NaN \/ b = NaN THEN NaN ELSE FlMul(24, a, b)

\* a / b; the divisor is zero only where the dividend is (normalize)
Div32(a, b) == IF a = NaN \/ b = NaN \/ b = Zero THEN NaN ELSE FlDiv(24, a, b)

\* A Python float as the binary32 constant TensorFlow makes of it.
Float32(a) == FlRound(24, a.neg, a.man, a.exp)

One == FlFromInt(1)

Half == FlDivInt(24, One, 2)

\* 2^-24
Epsilon == [neg |-> FALSE, man |-> <<1>>, exp |-> -24]

\* math.radians(1)
Radians1 == [neg |-> FALSE, man |-> <<7481, 17573, 32026, 142>>, exp |-> -58]

\* math.sqrt(n) for n = 1, 2, ...
SqrtTable ==
  <<
    [neg |-> FALSE, man |-> <<1>>, exp |-> 0],
    [neg |-> FALSE, man |-> <<15309, 19710, 633, 181>>, exp |-> -52],
    [neg |-> FALSE, man |-> <<9813, 26712, 27893, 110>>, exp |-> -51]
  >>

Sqrt(n) == SqrtTable[n]

\* tf.cos and tf.sin of the headings the agents of the model take.
TrigTable ==
  {
    [arg |-> [neg |-> TRUE, man |-> <<45>>, exp |-> 2],
     cos |-> [neg |-> TRUE, man |-> <<6743, 153>>, exp |-> -23],
     sin |-> [neg |-> FALSE, man |-> <<6231, 410>>, exp |-> -24]],
    [arg |-> [neg |-> TRUE, man |-> <<29675, 177>>, exp |-> -15],
     cos |-> [neg |-> TRUE, man |-> <<513, 101>>, exp |-> -23],
     sin |-> [neg |-> TRUE, man |-> <<7445, 235>>, exp |-> -23]],
    [arg |-> [neg |-> TRUE, man |-> <<20395, 351>>, exp |-> -16],
     cos |-> [neg |-> FALSE, man |-> <<14433, 508>>, exp |-> -24],
     sin |-> [neg |-> FALSE, man |-> <<17601, 120>>, exp |-> -25]],
    [arg |-> [neg |-> TRUE, man |-> <<14209, 347>>, exp |-> -16],
     cos |-> [neg |-> TRUE, man |-> <<4941, 19>>, exp |-> -20],
     sin |-> [neg |-> FALSE, man |-> <<6205, 410>>, exp |-> -24]],
    [arg |-> [neg |-> TRUE, man |-> <<1>>, exp |-> 0],
     cos |-> [neg |-> FALSE, man |-> <<10565, 4>>, exp |-> -18],
     sin |-> [neg |-> TRUE, man |-> <<23209, 107>>, exp |-> -22]],
    [arg |-> Zero,
     cos |-> [neg |-> FALSE, man |-> <<1>>, exp |-> 0],
     sin |-> Zero],
    [arg |-> [neg |-> FALSE, man |-> <<1353, 70>>, exp |-> -21],
     cos |-> [neg |-> FALSE, man |-> <<19335, 469>>, exp |-> -25],
     sin |-> [neg |-> FALSE, man |-> <<16209, 227>>, exp |-> -23]],
    [arg |-> [neg |-> FALSE, man |-> <<4059, 402>>, exp |-> -23],
     cos |-> [neg |-> TRUE, man |-> <<24215, 187>>, exp |-> -47],
     sin |-> [neg |-> FALSE, man |-> <<1>>, exp |-> 0]],
    [arg |-> [neg |-> FALSE, man |-> <<1353, 134>>, exp |-> -21],
     cos |-> [neg |-> TRUE, man |-> <<1, 256>>, exp |-> -24],
     sin |-> [neg |-> FALSE, man |-> <<13271, 443>>, exp |-> -24]],
    [arg |-> [neg |-> FALSE, man |-> <<1353, 102>>, exp |-> -20],
     cos |-> [neg |-> TRUE, man |-> <<14085, 511>>, exp |-> -24],
     sin |-> [neg |-> TRUE, man |-> <<10239, 48>>, exp |-> -25]],
    [arg |-> [neg |-> FALSE, man |-> <<21797, 3>>, exp |-> -15],
     cos |-> [neg |-> TRUE, man |-> <<13269, 443>>, exp |-> -24],
     sin |-> [neg |-> TRUE, man |-> <<3, 256>>, exp |-> -24]],
    [arg |-> [neg |-> FALSE, man |-> <<1353, 134>>, exp |-> -20],
     cos |-> [neg |-> TRUE, man |-> <<32765, 511>>, exp |-> -25],
     sin |-> [neg |-> TRUE, man |-> <<13947, 55>>, exp |-> -21]],
    [arg |-> [neg |-> FALSE, man |-> <<4059, 338>>, exp |-> -21],
     cos |-> [neg |-> FALSE, man |-> <<20803, 276>>, exp |-> -24],
     sin |-> [neg |-> TRUE, man |-> <<27299, 430>>, exp |-> -24]],
    [arg |-> [neg |-> FALSE, man |-> <<20105, 368>>, exp |-> -21],
     cos |-> [neg |-> FALSE, man |-> <<23021, 221>>, exp |-> -23],
     sin |-> [neg |-> TRUE, man |-> <<32767, 63>>, exp |-> -22]],
    [arg |-> [neg |-> FALSE, man |-> <<4059, 402>>, exp |-> -21],
     cos |-> [neg |-> FALSE, man |-> <<1>>, exp |-> 0],
     sin |-> [neg |-> FALSE, man |-> <<24215, 187>>, exp |-> -45]],
    [arg |-> [neg |-> FALSE, man |-> <<10729, 251>>, exp |-> -20],
     cos |-> [neg |-> TRUE, man |-> <<22077, 362>>, exp |-> -45],
     sin |-> [neg |-> FALSE, man |-> <<1>>, exp |-> 0]],
    [arg |-> [neg |-> FALSE, man |-> <<45>>, exp |-> 1],
     cos |-> [neg |-> TRUE, man |-> <<11581, 57>>, exp |-> -22],
     sin |-> [neg |-> FALSE, man |-> <<23799, 457>>, exp |-> -24]],
    [arg |-> [neg |-> FALSE, man |-> <<12373, 368>>, exp |-> -17],
     cos |-> [neg |-> TRUE, man |-> <<22751, 281>>, exp |-> -24],
     sin |-> [neg |-> TRUE, man |-> <<25267, 213>>, exp |-> -23]],
    [arg |-> [neg |-> FALSE, man |-> <<24745, 376>>, exp |-> -17],
     cos |-> [neg |-> FALSE, man |-> <<3585, 511>>, exp |-> -24],
     sin |-> [neg |-> TRUE, man |-> <<15857, 241>>, exp |-> -27]],
    [arg |-> [neg |-> FALSE, man |-> <<18559, 192>>, exp |-> -16],
     cos |-> [neg |-> TRUE, man |-> <<23181, 114>>, exp |-> -23],
     sin |-> [neg |-> FALSE, man |-> <<14137, 114>>, exp |-> -22]]
  }

Cos32(h) == IF h = NaN THEN NaN ELSE (CHOOSE e \in TrigTable : e.arg = h).cos

Sin32(h) == IF h = NaN THEN NaN ELSE (CHOOSE e \in TrigTable : e.arg = h).sin

\* tf.cast(v, tf.int32): truncation; what a NaN is cast to depends on the
\* platform (`nanAs`).
MinInt32 == -2147483647 - 1

Cast32(v, nanAs) == IF v = NaN THEN nanAs ELSE FlTrunc(v)

\* x % size on binary32 tensors, TensorFlow's floor_fmod: fmod(x, size), and
\* for a negative x fmod(fmod(x, size) + size, size).
FloorMod32(x, size) ==
    IF x = NaN THEN NaN
    ELSE IF x.neg THEN FlFmod(FlAdd(24, FlFmod(x, size), FlFromInt(size)), size)
    ELSE FlFmod(x, size)

FlMin(S) == CHOOSE m \in S : \A v \in S : ~FlLess(v, m)

FlMax(S) == CHOOSE m \in S : \A v \in S : ~FlLess(m, v)

\* normalize (effects.py 208-216) on binary32 values; on a constant tensor
\* it divides zero by zero.
Normalize32(t) ==
    LET lo == FlMin(Values(t))
        hi == FlMax(Values(t))
    IN  [y \in 1..Height(t) |-> [x \in 1..Width(t) |->
            [ch \in 1..Len(t[y][x]) |-> Div32(Sub32(t[y][x][ch], lo), Sub32(hi, lo))]]]

\* tf.reduce_sum over the channels of one pixel
RECURSIVE ReduceSum32(_)
ReduceSum32(px) ==
    IF px = <<>> THEN Zero
    ELSE Add32(ReduceSum32(SubSeq(px, 1, Len(px) - 1)), px[Len(px)])

\* value_map (effects.py 517-523): the channel sums, normalized
ValueMap32(t) ==
    Normalize32([y \in 1..Height(t) |-> [x \in 1..Width(t) |->
                    <<ReduceSum32(t[y][x])>>]])

\* value_map(tensor, shape) * 360.0 * math.radians(1) (effects.py 434)
FlowField(t) ==
    LET ref == ValueMap32(t)
    IN  [y \in 1..Height(t) |-> [x \in 1..Width(t) |->
            Mul32(Mul32(ref[y][x][1], FlFromInt(360)), Float32(Radians1))]]

WormBehaviors == {"obedient", "crosshatch", "chaotic", "other"}

\* The draws of worms_rot (effects.py 422-432): zeros; 0 or 90; a normal draw
\* times 360; a normal draw.
RotDraws(behavior) ==
    CASE behavior = "obedient" -> <<Zero>>
      [] behavior = "crosshatch" -> <<Zero, FlFromInt(90)>>
      [] behavior = "chaotic" -> <<FlFromInt(-180), FlFromInt(90)>>
      [] OTHER -> <<FlFromInt(-1), [neg |-> FALSE, man |-> <<4059, 402>>, exp |-> -23]>>

\* The draws of tf.random_uniform, in [0, 1)
UniformDraws == <<FlDivInt(24, One, 4), FlDivInt(24, FlFromInt(3), 4)>>

\* The draw of worms_stride (effects.py 415): normal around stride = 1.0
StrideDraw == One

\* The draws of the n agents of a call: agent a draws the uniform number
\* UniformDraws[u[a]] for both coordinates and the bias RotDraws[r[a]].  The
\* agents are interchangeable, so they are drawn in non-decreasing order.
AgentDraws(n, behavior) ==
    {d \in [1..n -> (1..Len(UniformDraws)) \X (1..Len(RotDraws(behavior)))] :
        \A a \in 1..(n - 1) :
            \/ d[a][1] < d[a + 1][1]
            \/ d[a][1] = d[a + 1][1] /\ d[a][2] <= d[a + 1][2]}

\* The grids of a shape: one bright pixel on a nearly black ground, a ramp,
\* and a constant grid.
WormTensors(h, w) ==
    {[y \in 1..h |-> [x \in 1..w |-> <<IF y = 1 /\ x = 1 THEN One ELSE Epsilon>>]],
     [y \in 1..h |-> [x \in 1..w |->
         <<FlDivInt(24, FlFromInt((y - 1) * w + (x - 1)), h * w)>>]],
     [y \in 1..h |-> [x \in 1..w |-> <<Half>>]]}

\* count = int(max(width, height) * density) (effects.py 411)
WormCount(shape, density) ==
    FlTrunc(FlMul(53, FlFromInt(Max2(shape[2], shape[1])), density))

\* iterations = int(math.sqrt(min(width, height)) * duration) (effects.py 436)
WormIterations(shape, duration) ==
    FlTrunc(FlMul(53, Sqrt(Min2(shape[2], shape[1])), duration))

\* exposure = 1 - abs(1 - i / (iterations - 1) * 2) (effects.py 446), for
\* iterations - 1 # 0
Exposure(i, n) ==
    FlSub(53, One,
          FlAbs(FlSub(53, One,
                      FlMul(53, FlDivInt(53, FlFromInt(i), n - 1), FlFromInt(2)))))

\* A position is a pixel of the grid.
ValidPixel(pos, shape) ==
    /\ 0 <= pos[1] /\ pos[1] < shape[1]
    /\ 0 <= pos[2] /\ pos[2] < shape[2]

\* The same scatter with the contribution stored in the pixel, not added.
ScatterStore(canvas, pos, color, expo) ==
    [canvas EXCEPT ![pos[1] + 1][pos[2] + 1] =
        [ch \in 1..Len(color) |-> Mul32(color[ch], Float32(expo))]]

\* tf.scatter_nd(worm_positions, colors * exposure, scatter_shape) (effects.py
\* 448) for one agent: its contribution is added to the pixel it is in.
ScatterAdd(canvas, pos, color, expo) ==
    [canvas EXCEPT ![pos[1] + 1][pos[2] + 1] =
        [ch \in 1..Len(color) |-> Add32(@[ch], Mul32(color[ch], Float32(expo)))]]

\* effects.py 452-453 for one agent: (coordinate + trig * stride) % size, `trig`
\* being the cosine of its heading for y and the sine for x.
Advance(coord, trig, stride, size) ==
    FloorMod32(Add32(coord, Mul32(trig, stride)), size)

Agents == 1..count

ZeroCanvas(shape) ==
    [y \in 1..shape[1] |-> [x \in 1..shape[2] |-> [ch \in 1..shape[3] |-> Zero]]]

\* The sum of two canvases.
AddCanvas(a, b) ==
    [y \in 1..Height(a) |-> [x \in 1..Width(a) |->
        [ch \in 1..Len(a[y][x]) |-> Add32(a[y][x][ch], b[y][x][ch])]]]

\* tensor * bg (effects.py 438)
Background(t, bg) ==
    [y \in 1..Height(t) |-> [x \in 1..Width(t) |->
        [ch \in 1..Len(t[y][x]) |-> Mul32(t[y][x][ch], Float32(bg))]]]

WormArgs ==
    {a \in [shape : {<<h, w, 1>> : h, w \in 1..MaxWormDim},
            tensor : UNION {WormTensors(h, w) : h, w \in 1..MaxWormDim},
            behavior : WormBehaviors,
            density : {FlDivInt(53, FlFromInt(k), DensityDen) : k \in {0, 1, MaxDensity}},
            duration : {FlFromInt(k) : k \in {0, 1, MaxDuration}},
            bg : {Zero, Half}] :
        /\ Height(a.tensor) = a.shape[1]
        /\ Width(a.tensor) = a.shape[2]
        /\ WormCount(a.shape, a.density) <= MaxAgents}

WormIdle ==
    /\ wmArgs = "idle" /\ count = 0 /\ worms_y = <<>> /\ worms_x = <<>>
    /\ worms_stride = <<>> /\ worms_rot = <<>> /\ colors = <<>> /\ index = <<>>
    /\ iterations = 0 /\ out = <<>> /\ wmI = 0 /\ worm_positions = <<>>
    /\ exposure = Zero /\ scattered = <<>> /\ moved = <<>> /\ wmPending = {}
    /\ wmPc = "idle"

WormStart ==
    /\ wmArgs \in WormArgs
    /\ count = 0 /\ worms_y = <<>> /\ worms_x = <<>>
    /\ worms_stride = <<>> /\ worms_rot = <<>> /\ colors = <<>> /\ index = <<>>
    /\ iterations = 0 /\ out = <<>> /\ wmI = 0 /\ worm_positions = <<>>
    /\ exposure = Zero /\ scattered = <<>> /\ moved = <<>> /\ wmPending = {}
    /\ wmPc = "spawn"

\* effects.py 409-440: the agents are drawn, their colors gathered, the flow
\* field, the iteration count and the canvas set.
WormSpawn ==
    /\ wmPc = "spawn"
    /\ count' = WormCount(wmArgs.shape, wmArgs.density)
    /\ index' = FlowField(wmArgs.tensor)
    /\ iterations' = WormIterations(wmArgs.shape, wmArgs.duration)
    /\ out' = Background(wmArgs.tensor, wmArgs.bg)
    /\ wmI' = 0
    /\ wmPc' = "loop"
    /\ \E d \in AgentDraws(WormCount(wmArgs.shape, wmArgs.density), wmArgs.behavior) :
          LET ys == [a \in DOMAIN d |->
                        Mul32(UniformDraws[d[a][1]], FlFromInt(wmArgs.shape[1]))]
              xs == [a \in DOMAIN d |->
                        Mul32(UniformDraws[d[a][1]], FlFromInt(wmArgs.shape[2]))]
          IN  /\ worms_y' = ys
              /\ worms_x' = xs
              /\ worms_stride' = [a \in DOMAIN d |-> StrideDraw]
              /\ worms_rot' = [a \in DOMAIN d |-> RotDraws(wmArgs.behavior)[d[a][2]]]
              /\ colors' = [a \in DOMAIN d |->
                     wmArgs.tensor[FlTrunc(ys[a]) + 1][FlTrunc(xs[a]) + 1]]
    /\ UNCHANGED <<wmArgs, worm_positions, exposure, scattered, moved, wmPending,
                   notWorm>>

\* effects.py 443-448: the next iteration starts.  With iterations = 1 the
\* exposure divides by iterations - 1 = 0; tf.scatter_nd rejects a position
\* that is no pixel of the canvas.
WormLoop ==
    /\ wmPc = "loop"
    /\ wmI < iterations
    /\ \E nanAs \in {0, MinInt32} :
          LET positions == [a \in Agents |-> <<Cast32(worms_y[a], nanAs),
                                               Cast32(worms_x[a], nanAs)>>]
          IN  /\ worm_positions' = positions
              /\ IF iterations - 1 = 0
                 THEN /\ wmPc' = "ZeroDivisionError"
                      /\ UNCHANGED <<exposure, scattered, wmPending>>
                 ELSE /\ exposure' = Exposure(wmI, iterations)
                      /\ IF \A a \in Agents : ValidPixel(positions[a], wmArgs.shape)
                         THEN /\ scattered' = ZeroCanvas(wmArgs.shape)
                              /\ wmPending' = Agents
                              /\ wmPc' = "scatter"
                         ELSE /\ wmPc' = "InvalidArgumentError"
                              /\ UNCHANGED <<scattered, wmPending>>
    /\ UNCHANGED <<wmArgs, count, worms_y, worms_x, worms_stride, worms_rot, colors,
                   index, iterations, out, wmI, moved, notWorm>>

\* effects.py 448, tf.scatter_nd: the contribution of one agent, in any order.
WormScatter ==
    /\ wmPc = "scatter"
    /\ \E a \in wmPending :
          /\ scattered' = ScatterAdd(scattered, worm_positions[a], colors[a], exposure)
          /\ wmPending' = wmPending \ {a}
    /\ UNCHANGED <<wmArgs, count, worms_y, worms_x, worms_stride, worms_rot, colors,
                   index, iterations, out, wmI, worm_positions, exposure, moved,
                   wmPc, notWorm>>

\* effects.py 448, `out +=`
WormAccumulate ==
    /\ wmPc = "scatter"
    /\ wmPending = {}
    /\ out' = AddCanvas(out, scattered)
    /\ moved' = <<worms_y, worms_x>>
    /\ wmPending' = Agents
    /\ wmPc' = "move"
    /\ UNCHANGED <<wmArgs, count, worms_y, worms_x, worms_stride, worms_rot, colors,
                   index, iterations, wmI, worm_positions, exposure, scattered,
                   notWorm>>

\* The heading of an agent (effects.py 450): the flow at the pixel it is in,
\* plus its bias.
NextPosition(a) ==
    Add32(index[worm_positions[a][1] + 1][worm_positions[a][2] + 1], worms_rot[a])

\* effects.py 450-453 for one agent, in any order
WormMove ==
    /\ wmPc = "move"
    /\ \E a \in wmPending :
          /\ moved' =
                <<[moved[1] EXCEPT ![a] =
                      Advance(worms_y[a], Cos32(NextPosition(a)), worms_stride[a],
                              wmArgs.shape[1])],
                  [moved[2] EXCEPT ![a] =
                      Advance(worms_x[a], Sin32(NextPosition(a)), worms_stride[a],
                              wmArgs.shape[2])]>>
          /\ wmPending' = wmPending \ {a}
    /\ UNCHANGED <<wmArgs, count, worms_y, worms_x, worms_stride, worms_rot, colors,
                   index, iterations, out, wmI, worm_positions, exposure, scattered,
                   wmPc, notWorm>>

\* effects.py 452-453, the assignments, and the end of the iteration
WormAssign ==
    /\ wmPc = "move"
    /\ wmPending = {}
    /\ worms_y' = moved[1]
    /\ worms_x' = moved[2]
    /\ wmI' = wmI + 1
    /\ wmPc' = "loop"
    /\ UNCHANGED <<wmArgs, count, worms_stride, worms_rot, colors, index, iterations,
                   out, worm_positions, exposure, scattered, moved, wmPending,
                   notWorm>>

\* effects.py 455-457: convert_image_dtype from float32 to float32 returns its
\* argument; then normalize.
WormNormalize ==
    /\ wmPc = "loop"
    /\ wmI >= iterations
    /\ out' = Normalize32(out)
    /\ wmPc' = "done"
    /\ UNCHANGED <<wmArgs, count, worms_y, worms_x, worms_stride, worms_rot, colors,
                   index, iterations, wmI, worm_positions, exposure, scattered,
                   moved, wmPending, notWorm>>

(***************************************************************************)
(* Claims about worms.                                                     *)
(***************************************************************************)

WormRunning == wmPc \in {"loop", "scatter", "move"}

WormFailed == wmPc \in {"ZeroDivisionError", "InvalidArgumentError"}

\* C6: with density = 0 (no agents), whatever the grid, bg and duration, the
\* call completes (it raises no error), the canvas equals grid * bg at every
\* point of the loop, and the output is normalize(grid * bg), of the shape of
\* the input.
C6_NoAgentsLeavesBackground ==
    (wmPc # "spawn" /\ wmArgs.density = Zero) =>
        /\ count = 0
        /\ ~WormFailed
        /\ WormRunning => out = Background(wmArgs.tensor, wmArgs.bg)
        /\ wmPc = "done" =>
              /\ out = Normalize32(Background(wmArgs.tensor, wmArgs.bg))
              /\ Height(out) = wmArgs.shape[1]
              /\ Width(out) = wmArgs.shape[2]

\* C7: for every iteration count N computed from shape and duration and
\* every iteration i in 0..N-1 the exposure is defined (computing it raises
\* no error), lies in [0, 1], is 0 at i = 0 and at i = N - 1, and is 1 at the
\* midpoint 2i = N - 1.
C7_ExposureEnvelope ==
    /\ wmPc # "ZeroDivisionError"
    /\ wmPc \in {"scatter", "move"} =>
          /\ ~exposure.neg
          /\ ~FlLess(One, exposure)
          /\ (wmI = 0 \/ wmI = iterations - 1) => exposure = Zero
          /\ 2 * wmI = iterations - 1 => exposure = One

\* 0 <= v < size
InRange(v, size) == v # NaN /\ ~v.neg /\ FlLess(v, FlFromInt(size))

\* C8: at the start and after every iteration every agent's position has
\* 0 <= y < height and 0 <= x < width, and every position used to scatter
\* into the canvas or to gather from the flow field is a pixel of the grid.
C8_PositionsInRange ==
    /\ WormRunning =>
          \A a \in Agents : /\ InRange(worms_y[a], wmArgs.shape[1])
                            /\ InRange(worms_x[a], wmArgs.shape[2])
    /\ wmPc \in {"scatter", "move"} =>
          \A a \in Agents : ValidPixel(worm_positions[a], wmArgs.shape)
    /\ wmPc # "InvalidArgumentError"

\* The scatter of the first n agents, in the order of their numbers.
RECURSIVE ScatterInOrder(_)
ScatterInOrder(n) ==
    IF n = 0 THEN ZeroCanvas(wmArgs.shape)
    ELSE ScatterAdd(ScatterInOrder(n - 1), worm_positions[n], colors[n], exposure)

\* The positions after the iteration, each computed from the positions before.
MovedInOrder ==
    <<[a \in Agents |-> Advance(worms_y[a], Cos32(NextPosition(a)), worms_stride[a],
                                wmArgs.shape[1])],
      [a \in Agents |-> Advance(worms_x[a], Sin32(NextPosition(a)), worms_stride[a],
                                wmArgs.shape[2])]>>

\* C9: within one iteration, the scattered canvas and the new positions are
\* the same for every order in which the agents are processed, also when
\* several agents are in one pixel: they are what processing the agents in the
\* order of their numbers gives, from the positions of the iteration before.
C9_OrderIndependent ==
    /\ (wmPc = "scatter" /\ wmPending = {}) => scattered = ScatterInOrder(count)
    /\ (wmPc = "move" /\ wmPending = {}) => moved = MovedInOrder

\* What holds of the code of C7: the envelope, wherever it is computed.
C7_EnvelopeWhereDefined ==
    wmPc \in {"scatter", "move"} =>
        /\ ~exposure.neg
        /\ ~FlLess(One, exposure)
        /\ (wmI = 0 \/ wmI = iterations - 1) => exposure = Zero
        /\ 2 * wmI = iterations - 1 => exposure = One

\* What holds of the code of C8: the positions are pixels of the grid as long
\* as the flow field is no NaN.
C8_InRangeOnVaryingGrid ==
    (wmPc # "spawn" /\ index[1][1] # NaN) => C8_PositionsInRange

\* At most two agents are in any one pixel.
AtMostPairs ==
    \A p \in Range(worm_positions) :
        Cardinality({a \in Agents : worm_positions[a] = p}) <= 2

\* C9 as it holds of the code: within one iteration the positions after the
\* iteration are the same for every order in which the agents are processed
\* (each is computed from the positions of the iteration before), and so is
\* the scattered canvas whenever no pixel receives more than two
\* contributions; float32 addition is commutative but not associative, so
\* three or more contributions to one pixel may sum differently.
C9_OrderIndependentUpToPairs ==
    /\ (wmPc = "move" /\ wmPending = {}) => moved = MovedInOrder
    /\ (wmPc = "scatter" /\ wmPending = {} /\ AtMostPairs)
          => scattered = ScatterInOrder(count)

\* Two agents of different colour have been scattered into one pixel at full
\* exposure.
C9_Witness ==
    /\ wmPc = "scatter" /\ wmPending = {} /\ exposure = One /\ AtMostPairs
    /\ \E a, b \in Agents : /\ a # b
                            /\ worm_positions[a] = worm_positions[b]
                            /\ colors[a] # colors[b]
                            /\ scattered = ScatterInOrder(count)

(***************************************************************************)
(* point_cloud and its point functions (points.py), in binary64.           *)
(*                                                                         *)
(* A Python number is an integer of TLA+ where the code has an int (the    *)
(* pixels of a shape, the generations) and a binary64 value of the library *)
(* above where it has a float.                                             *)
(***************************************************************************)

\* freq is 0..MaxFreq
MaxFreq == 2

\* a shape is None or <<height, width>> with both in 1..MaxCloudDim
MaxCloudDim == 2

\* generations is 0..MaxGenerations when a shape is given
MaxGenerations == 2

\* generations is 0..MaxUnitGenerations when shape is None: nothing is
\* deduplicated then, and the frontier grows as freq ^ (2 * generations)
MaxUnitGenerations == 1

\* points.py 8-30
PointDistribution ==
    {"random", "square", "waffle", "chess", "h_hex", "v_hex", "spiral", "circular",
     "concentric"}

\* points.py 32-34
is_grid(member) == member \in {"square", "waffle", "chess", "h_hex", "v_hex"}

\* points.py 36-38
is_circular(member) == member \in {"circular", "concentric"}

\* +, -, * and / of two Python floats, an int operand being converted first.
Add64(a, b) == FlAdd(53, a, b)

Sub64(a, b) == FlSub(53, a, b)

Mul64(a, b) == FlMul(53, a, b)

\* a / d, for an int d > 0
TrueDiv(a, d) == FlDivInt(53, a, d)

\* a % w, for a width or height w (an int, or the 1.0 of shape None)
Mod64(a, w) == FlMod(53, a, w)

\* The values math.sin and math.cos return for the angles of circular and
\* spiral, as the C library computes them.
MathTable ==
  {
    [arg |-> [neg |-> TRUE, man |-> <<11657, 29961, 20523, 139>>, exp |-> -44],
     sin |-> [neg |-> TRUE, man |-> <<945, 14917, 25512, 43>>, exp |-> -52],
     cos |-> [neg |-> TRUE, man |-> <<11417, 1188, 18393, 240>>, exp |-> -53]],
    [arg |-> [neg |-> TRUE, man |-> <<763, 26317, 8900, 15>>, exp |-> -41],
     sin |-> [neg |-> FALSE, man |-> <<1467, 10526, 4535, 41>>, exp |-> -51],
     cos |-> [neg |-> FALSE, man |-> <<20363, 17822, 3518, 196>>, exp |-> -53]],
    [arg |-> [neg |-> TRUE, man |-> <<31899, 8623, 14825, 29>>, exp |-> -42],
     sin |-> [neg |-> TRUE, man |-> <<31611, 12534, 22362, 28>>, exp |-> -96],
     cos |-> [neg |-> TRUE, man |-> <<1>>, exp |-> 0]],
    [arg |-> [neg |-> TRUE, man |-> <<551, 30663, 23584, 104>>, exp |-> -44],
     sin |-> [neg |-> TRUE, man |-> <<9853, 26712, 27893, 110>>, exp |-> -52],
     cos |-> [neg |-> TRUE, man |-> <<32493, 32767, 32767, 255>>, exp |-> -54]],
    [arg |-> [neg |-> TRUE, man |-> <<30267, 23698, 20749, 43>>, exp |-> -43],
     sin |-> [neg |-> FALSE, man |-> <<2273, 14536, 28785, 7>>, exp |-> -48],
     cos |-> [neg |-> FALSE, man |-> <<14125, 20417, 3718, 11>>, exp |-> -51]],
    [arg |-> [neg |-> TRUE, man |-> <<17211, 13226, 2609, 157>>, exp |-> -45],
     sin |-> [neg |-> TRUE, man |-> <<16597, 385, 17989, 141>>, exp |-> -102],
     cos |-> [neg |-> FALSE, man |-> <<1>>, exp |-> 0]],
    [arg |-> [neg |-> TRUE, man |-> <<11657, 29961, 20523, 139>>, exp |-> -45],
     sin |-> [neg |-> TRUE, man |-> <<3579, 3201, 1815, 126>>, exp |-> -52],
     cos |-> [neg |-> FALSE, man |-> <<30331, 31766, 26729, 177>>, exp |-> -55]],
    [arg |-> [neg |-> TRUE, man |-> <<551, 30663, 23584, 104>>, exp |-> -45],
     sin |-> [neg |-> FALSE, man |-> <<19587, 20656, 23019, 221>>, exp |-> -53],
     cos |-> [neg |-> TRUE, man |-> <<69, 0, 0, 128>>, exp |-> -53]],
    [arg |-> [neg |-> TRUE, man |-> <<17211, 13226, 2609, 157>>, exp |-> -46],
     sin |-> [neg |-> FALSE, man |-> <<16597, 385, 17989, 141>>, exp |-> -103],
     cos |-> [neg |-> TRUE, man |-> <<1>>, exp |-> 0]],
    [arg |-> [neg |-> TRUE, man |-> <<11657, 29961, 20523, 139>>, exp |-> -46],
     sin |-> [neg |-> TRUE, man |-> <<5587, 9336, 18141, 164>>, exp |-> -53],
     cos |-> [neg |-> FALSE, man |-> <<20599, 17822, 3518, 196>>, exp |-> -53]],
    [arg |-> [neg |-> TRUE, man |-> <<11657, 29961, 20523, 139>>, exp |-> -47],
     sin |-> [neg |-> FALSE, man |-> <<743, 14917, 25512, 43>>, exp |-> -52],
     cos |-> [neg |-> TRUE, man |-> <<2891, 8489, 4598, 60>>, exp |-> -51]],
    [arg |-> [neg |-> TRUE, man |-> <<17543, 5582, 23649, 178>>, exp |-> -96],
     sin |-> [neg |-> TRUE, man |-> <<17543, 5582, 23649, 178>>, exp |-> -96],
     cos |-> [neg |-> FALSE, man |-> <<1>>, exp |-> 0]],
    [arg |-> [neg |-> TRUE, man |-> <<11771, 16778, 6250, 78>>, exp |-> -95],
     sin |-> [neg |-> TRUE, man |-> <<11771, 16778, 6250, 78>>, exp |-> -95],
     cos |-> [neg |-> FALSE, man |-> <<1>>, exp |-> 0]],
    [arg |-> [neg |-> TRUE, man |-> <<4329, 32563, 13048, 75>>, exp |-> -95],
     sin |-> [neg |-> TRUE, man |-> <<4329, 32563, 13048, 75>>, exp |-> -95],
     cos |-> [neg |-> FALSE, man |-> <<1>>, exp |-> 0]],
    [arg |-> [neg |-> TRUE, man |-> <<29541, 28762, 1352, 134>>, exp |-> -96],
     sin |-> [neg |-> TRUE, man |-> <<29541, 28762, 1352, 134>>, exp |-> -96],
     cos |-> [neg |-> FALSE, man |-> <<1>>, exp |-> 0]],
    [arg |-> [neg |-> TRUE, man |-> <<5545, 15170, 13177, 223>>, exp |-> -97],
     sin |-> [neg |-> TRUE, man |-> <<5545, 15170, 13177, 223>>, exp |-> -97],
     cos |-> [neg |-> FALSE, man |-> <<1>>, exp |-> 0]],
    [arg |-> [neg |-> TRUE, man |-> <<1443, 21777, 4349, 25>>, exp |-> -94],
     sin |-> [neg |-> TRUE, man |-> <<1443, 21777, 4349, 25>>, exp |-> -94],
     cos |-> [neg |-> FALSE, man |-> <<1>>, exp |-> 0]],
    [arg |-> [neg |-> TRUE, man |-> <<17543, 5582, 23649, 178>>, exp |-> -97],
     sin |-> [neg |-> TRUE, man |-> <<17543, 5582, 23649, 178>>, exp |-> -97],
     cos |-> [neg |-> FALSE, man |-> <<1>>, exp |-> 0]],
    [arg |-> [neg |-> TRUE, man |-> <<29541, 28762, 1352, 134>>, exp |-> -97],
     sin |-> [neg |-> TRUE, man |-> <<29541, 28762, 1352, 134>>, exp |-> -97],
     cos |-> [neg |-> FALSE, man |-> <<1>>, exp |-> 0]],
    [arg |-> [neg |-> TRUE, man |-> <<1443, 21777, 4349, 25>>, exp |-> -95],
     sin |-> [neg |-> TRUE, man |-> <<1443, 21777, 4349, 25>>, exp |-> -95],
     cos |-> [neg |-> FALSE, man |-> <<1>>, exp |-> 0]],
    [arg |-> [neg |-> TRUE, man |-> <<17543, 5582, 23649, 178>>, exp |-> -98],
     sin |-> [neg |-> TRUE, man |-> <<17543, 5582, 23649, 178>>, exp |-> -98],
     cos |-> [neg |-> FALSE, man |-> <<1>>, exp |-> 0]],
    [arg |-> [neg |-> TRUE, man |-> <<17543, 5582, 23649, 178>>, exp |-> -99],
     sin |-> [neg |-> TRUE, man |-> <<17543, 5582, 23649, 178>>, exp |-> -99],
     cos |-> [neg |-> FALSE, man |-> <<1>>, exp |-> 0]],
    [arg |-> Zero,
     sin |-> Zero,
     cos |-> [neg |-> FALSE, man |-> <<1>>, exp |-> 0]],
    [arg |-> [neg |-> FALSE, man |-> <<29541, 28762, 1352, 134>>, exp |-> -51],
     sin |-> [neg |-> FALSE, man |-> <<19627, 20656, 23019, 221>>, exp |-> -53],
     cos |-> [neg |-> TRUE, man |-> <<32767, 32767, 32767, 63>>, exp |-> -52]],
    [arg |-> [neg |-> FALSE, man |-> <<1443, 21777, 4349, 25>>, exp |-> -48],
     sin |-> [neg |-> FALSE, man |-> <<23559, 26152, 6296, 141>>, exp |-> -105],
     cos |-> [neg |-> TRUE, man |-> <<1>>, exp |-> 0]],
    [arg |-> [neg |-> FALSE, man |-> <<29541, 28762, 1352, 134>>, exp |-> -50],
     sin |-> [neg |-> TRUE, man |-> <<2453, 14870, 23357, 27>>, exp |-> -50],
     cos |-> [neg |-> TRUE, man |-> <<1, 0, 0, 32>>, exp |-> -51]],
    [arg |-> [neg |-> FALSE, man |-> <<4329, 32563, 13048, 75>>, exp |-> -49],
     sin |-> [neg |-> TRUE, man |-> <<1>>, exp |-> 0],
     cos |-> [neg |-> TRUE, man |-> <<17669, 19614, 29298, 105>>, exp |-> -104]],
    [arg |-> [neg |-> FALSE, man |-> <<26655, 17976, 25421, 83>>, exp |-> -49],
     sin |-> [neg |-> TRUE, man |-> <<9815, 26712, 27893, 110>>, exp |-> -52],
     cos |-> [neg |-> FALSE, man |-> <<32765, 32767, 32767, 63>>, exp |-> -52]],
    [arg |-> [neg |-> FALSE, man |-> <<1443, 21777, 4349, 25>>, exp |-> -47],
     sin |-> [neg |-> TRUE, man |-> <<23559, 26152, 6296, 141>>, exp |-> -104],
     cos |-> [neg |-> FALSE, man |-> <<1>>, exp |-> 0]],
    [arg |-> [neg |-> FALSE, man |-> <<2545, 17567, 18751, 234>>, exp |-> -50],
     sin |-> [neg |-> FALSE, man |-> <<2453, 14870, 23357, 27>>, exp |-> -50],
     cos |-> [neg |-> FALSE, man |-> <<5, 0, 0, 128>>, exp |-> -53]],
    [arg |-> [neg |-> FALSE, man |-> <<7215, 10581, 21748, 125>>, exp |-> -49],
     sin |-> [neg |-> FALSE, man |-> <<1>>, exp |-> 0],
     cos |-> [neg |-> FALSE, man |-> <<29449, 32690, 16062, 176>>, exp |-> -104]],
    [arg |-> [neg |-> FALSE, man |-> <<29541, 28762, 1352, 134>>, exp |-> -49],
     sin |-> [neg |-> FALSE, man |-> <<19631, 20656, 23019, 221>>, exp |-> -53],
     cos |-> [neg |-> TRUE, man |-> <<32761, 32767, 32767, 127>>, exp |-> -53]],
    [arg |-> [neg |-> FALSE, man |-> <<4329, 32563, 13048, 75>>, exp |-> -48],
     sin |-> [neg |-> FALSE, man |-> <<17669, 19614, 29298, 105>>, exp |-> -103],
     cos |-> [neg |-> TRUE, man |-> <<1>>, exp |-> 0]],
    [arg |-> [neg |-> FALSE, man |-> <<5553, 16033, 14853, 17>>, exp |-> -44],
     sin |-> [neg |-> TRUE, man |-> <<2851, 26900, 3745, 175>>, exp |-> -54],
     cos |-> [neg |-> TRUE, man |-> <<5793, 16978, 9196, 120>>, exp |-> -52]],
    [arg |-> [neg |-> FALSE, man |-> <<5553, 16033, 14853, 17>>, exp |-> -43],
     sin |-> [neg |-> FALSE, man |-> <<5489, 9336, 18141, 164>>, exp |-> -53],
     cos |-> [neg |-> FALSE, man |-> <<20681, 17822, 3518, 196>>, exp |-> -53]],
    [arg |-> [neg |-> FALSE, man |-> <<17209, 13226, 2609, 157>>, exp |-> -46],
     sin |-> [neg |-> FALSE, man |-> <<31225, 27635, 18893, 251>>, exp |-> -98],
     cos |-> [neg |-> TRUE, man |-> <<1>>, exp |-> 0]],
    [arg |-> [neg |-> FALSE, man |-> <<16659, 15331, 11792, 52>>, exp |-> -44],
     sin |-> [neg |-> TRUE, man |-> <<19459, 20656, 23019, 221>>, exp |-> -53],
     cos |-> [neg |-> TRUE, man |-> <<145, 0, 0, 64>>, exp |-> -52]],
    [arg |-> [neg |-> FALSE, man |-> <<5553, 16033, 14853, 17>>, exp |-> -42],
     sin |-> [neg |-> FALSE, man |-> <<3557, 3201, 1815, 126>>, exp |-> -52],
     cos |-> [neg |-> FALSE, man |-> <<31339, 31766, 26729, 177>>, exp |-> -55]],
    [arg |-> [neg |-> FALSE, man |-> <<17209, 13226, 2609, 157>>, exp |-> -45],
     sin |-> [neg |-> TRUE, man |-> <<31225, 27635, 18893, 251>>, exp |-> -97],
     cos |-> [neg |-> FALSE, man |-> <<1>>, exp |-> 0]],
    [arg |-> [neg |-> FALSE, man |-> <<27765, 14629, 8731, 87>>, exp |-> -44],
     sin |-> [neg |-> TRUE, man |-> <<9103, 25376, 16837, 31>>, exp |-> -50],
     cos |-> [neg |-> FALSE, man |-> <<27375, 31766, 26729, 177>>, exp |-> -55]],
    [arg |-> [neg |-> FALSE, man |-> <<16659, 15331, 11792, 52>>, exp |-> -43],
     sin |-> [neg |-> FALSE, man |-> <<9981, 26712, 27893, 110>>, exp |-> -52],
     cos |-> [neg |-> TRUE, man |-> <<32187, 32767, 32767, 127>>, exp |-> -53]],
    [arg |-> [neg |-> FALSE, man |-> <<29291, 1727, 26533, 117>>, exp |-> -44],
     sin |-> [neg |-> FALSE, man |-> <<31611, 12534, 22362, 156>>, exp |-> -96],
     cos |-> [neg |-> TRUE, man |-> <<1>>, exp |-> 0]],
    [arg |-> [neg |-> FALSE, man |-> <<6103, 13928, 5670, 122>>, exp |-> -44],
     sin |-> [neg |-> TRUE, man |-> <<1565, 10526, 4535, 41>>, exp |-> -51],
     cos |-> [neg |-> FALSE, man |-> <<10017, 8911, 1759, 98>>, exp |-> -52]],
    [arg |-> [neg |-> FALSE, man |-> <<5553, 16033, 14853, 17>>, exp |-> -41],
     sin |-> [neg |-> FALSE, man |-> <<2371, 29834, 18256, 87>>, exp |-> -53],
     cos |-> [neg |-> TRUE, man |-> <<5621, 16978, 9196, 120>>, exp |-> -52]]
  }

MathSin(rads) == (CHOOSE e \in MathTable : e.arg = rads).sin

MathCos(rads) == (CHOOSE e \in MathTable : e.arg = rads).cos

\* 1 - 2^-53, the largest value random.random() returns
AlmostOne == FlNorm(FALSE, NatSub(NatShl(<<1>>, 53), <<1>>), -53)

\* 1/2 - 2^-53, the value of random.random() next below 1/2
JustUnderHalf == FlNorm(FALSE, NatSub(NatShl(<<1>>, 52), <<1>>), -53)

\* The values a call of random.random() may return (it returns k / 2^53).
RandomValues == <<Zero, JustUnderHalf, AlmostOne>>

\* The draws of one call of the point function: rand draws an x and a y for
\* each of its freq * freq points (here the pairs are equal or mirrored draws,
\* in non-decreasing order), spiral one kink, the others nothing.
PointDraws(freq, distrib) ==
    IF distrib = "random"
    THEN {d \in [1..(freq * freq) -> 1..Len(RandomValues)] :
             \A i \in 1..(freq * freq - 1) : d[i] <= d[i + 1]}
    ELSE IF distrib = "spiral" THEN {<<k>> : k \in 1..Len(RandomValues)}
    ELSE {<<>>}

\* rand (points.py 126-140): the points of one call, as <<_x, _y>> pairs, the
\* i-th with draws[i] for x and the draw mirrored in RandomValues for y.
rand(freq, center_x, center_y, range_x, range_y, width, height, draws) ==
    [i \in 1..(freq * freq) |->
        LET rx == RandomValues[draws[i]]
            ry == RandomValues[Len(RandomValues) + 1 - draws[i]]
        IN  <<Mod64(Add64(center_x,
                          Sub64(Mul64(rx, Mul64(range_x, FlFromInt(2))), range_x)),
                    width),
              Mod64(Add64(center_y,
                          Sub64(Mul64(ry, Mul64(range_y, FlFromInt(2))), range_y)),
                    height)>>]

\* square_grid (points.py 143-186)
square_grid(freq, distrib, center, center_x, center_y, range_x, range_y, width, height) ==
    LET drift_amount == TrueDiv(Half, freq)
        drift == IF (freq * freq) % 2 = 0
                 THEN (IF center THEN Zero ELSE drift_amount)
                 ELSE (IF center THEN drift_amount ELSE Zero)
        skipped(a, b) ==
            \/ distrib = "waffle" /\ b % 2 = 0 /\ a % 2 = 0
            \/ distrib = "chess" /\ a % 2 = b % 2
        x_drift(b) == IF distrib = "h_hex" /\ b % 2 = 1 THEN drift_amount ELSE Zero
        y_drift(a) == IF distrib = "v_hex" /\ a % 2 # 1 THEN drift_amount ELSE Zero
        x_point(a, b) ==
            Mod64(Add64(center_x,
                        Mul64(Mul64(Add64(Add64(TrueDiv(FlFromInt(a), freq), drift),
                                          x_drift(b)),
                                    range_x),
                              FlFromInt(2))),
                  width)
        y_point(a, b) ==
            Mod64(Add64(center_y,
                        Mul64(Mul64(Add64(Add64(TrueDiv(FlFromInt(b), freq), drift),
                                          y_drift(a)),
                                    range_y),
                              FlFromInt(2))),
                  height)
        cells == [k \in 1..(freq * freq) |-> <<(k - 1) \div freq, (k - 1) % freq>>]
        kept == SelectSeq(cells, LAMBDA c : ~skipped(c[1], c[2]))
    IN  [k \in 1..Len(kept) |->
            <<x_point(kept[k][1], kept[k][2]), y_point(kept[k][1], kept[k][2])>>]

\* spiral (points.py 189-208), `draws` holding the draw of its kink
spiral(freq, center_x, center_y, range_x, range_y, width, height, draws) ==
    LET kink == Sub64(Mul64(RandomValues[draws[1]], FlFromInt(100)), FlFromInt(50))
    IN  [k \in 1..(freq * freq) |->
            LET fract == TrueDiv(FlFromInt(k - 1), freq * freq)
                degrees == Mul64(Mul64(Mul64(fract, FlFromInt(360)), Radians1), kink)
            IN  <<Mod64(Add64(center_x, Mul64(Mul64(MathSin(degrees), fract), range_x)),
                        width),
                  Mod64(Add64(center_y, Mul64(Mul64(MathCos(degrees), fract), range_y)),
                        height)>>]

\* circular (points.py 211-241)
circular(freq, distrib, center_x, center_y, range_x, range_y, width, height) ==
    LET rotation == Mul64(Mul64(TrueDiv(One, freq), FlFromInt(360)), Radians1)
        rads(i, j) ==
            IF distrib = "circular"
            THEN Add64(Mul64(FlFromInt(j), rotation),
                       Mul64(Mul64(rotation, Half), FlFromInt(i)))
            ELSE Mul64(FlFromInt(j), rotation)
        dist_fract(i) == TrueDiv(FlFromInt(i), freq)
        x_point(i, j) ==
            Add64(center_x, Mul64(Mul64(MathSin(rads(i, j)), dist_fract(i)), range_x))
        y_point(i, j) ==
            Add64(center_y, Mul64(Mul64(MathCos(rads(i, j)), dist_fract(i)), range_y))
    IN  <<<<center_x, center_y>>>> \o
        [k \in 1..(freq * freq) |->
            LET i == ((k - 1) \div freq) + 1
                j == ((k - 1) % freq) + 1
            IN  <<Mod64(x_point(i, j), width), Mod64(y_point(i, j), height)>>]

\* points.py 51-57: the width and height of a shape, 1.0 for None (<<>>)
CloudWidth(shape) == IF shape = <<>> THEN 1 ELSE shape[2]

CloudHeight(shape) == IF shape = <<>> THEN 1 ELSE shape[1]

\* points.py 59-60: range_x = width * .5
HalfRange(size) == Mul64(FlFromInt(size), Half)

\* The seed at the centre of the image for every distribution.
SeedAtCenter(args) ==
    <<HalfRange(CloudWidth(args.shape)), HalfRange(CloudHeight(args.shape)), 1>>

\* points.py 85-89: the element the frontier starts with
Seed(args) ==
    IF is_grid(args.distrib) THEN <<Zero, Zero, 1>>
    ELSE <<HalfRange(CloudWidth(args.shape)), HalfRange(CloudHeight(args.shape)), 1>>

\* A coordinate of a frontier element as a float: the seed's and those of
\* shape None are floats, the others the ints of points.py 110-111.
AsFloat(args, e, v) == IF e[3] = 1 \/ args.shape = <<>> THEN v ELSE FlFromInt(v)

\* points.py 97-103: what the point function returns for the popped element e
NextPoints(args, e, draws) ==
    LET multiplier == Max2(2 * (e[3] - 1), 1)
        width == CloudWidth(args.shape)
        height == CloudHeight(args.shape)
        center_x == AsFloat(args, e, e[1])
        center_y == AsFloat(args, e, e[2])
        range_x == TrueDiv(HalfRange(width), multiplier)
        range_y == TrueDiv(HalfRange(height), multiplier)
    IN  IF is_grid(args.distrib)
        THEN square_grid(args.freq, args.distrib, args.center, center_x, center_y,
                         range_x, range_y, width, height)
        ELSE IF args.distrib = "spiral"
        THEN spiral(args.freq, center_x, center_y, range_x, range_y, width, height, draws)
        ELSE IF is_circular(args.distrib)
        THEN circular(args.freq, args.distrib, center_x, center_y, range_x, range_y,
                      width, height)
        ELSE rand(args.freq, center_x, center_y, range_x, range_y, width, height, draws)

\* x.append(x_point) without the y.append(y_point) after it
AppendXOnly(xy, point) == <<Append(xy[1], point[1]), xy[2]>>

\* points.py 120-121: x.append(x_point); y.append(y_point)
AppendPoint(xy, point) == <<Append(xy[1], point[1]), Append(xy[2], point[2])>>

\* The shapes of a call: None (<<>>) or <<height, width>>.
PixelShapes == {<<h, w>> : h \in 1..MaxCloudDim, w \in 1..MaxCloudDim}

\* The arguments of the calls of point_cloud.
CloudArgs ==
    [freq : 0..MaxFreq, distrib : PointDistribution, shape : PixelShapes,
     center : BOOLEAN, generations : 0..MaxGenerations]
    \cup
    [freq : 0..MaxFreq, distrib : PointDistribution, shape : {<<>>},
     center : BOOLEAN, generations : 0..MaxUnitGenerations]

\* generations = 1 and the square or waffle distribution on a shape whose
\* height and width are multiples of freq, up to MaxCells cells per axis
MaxLatticeFreq == 3

MaxCells == 6

LatticeArgs ==
    {[freq |-> f, distrib |-> d, shape |-> <<f * kh, f * kw>>, center |-> c,
      generations |-> 1] :
        f \in 1..MaxLatticeFreq, d \in {"square", "waffle"}, kh \in 1..MaxCells,
        kw \in 1..MaxCells, c \in BOOLEAN}

\* The calls whose point set is compared over the pop orders: a distribution
\* without random draws, a shape of up to MaxCloudDim rows and MaxOrderWidth
\* columns (MaxCloudDim columns for circular, whose two rotated rings reach
\* the pixels of a wider shape in too many orders to enumerate), and up to
\* MaxOrderGenerations generations.
MaxOrderWidth == 5

MaxOrderGenerations == 3

OrderArgs ==
    {a \in [freq : 1..MaxFreq, distrib : PointDistribution \ {"random", "spiral"},
            shape : {<<h, w>> : h \in 1..MaxCloudDim, w \in 1..MaxOrderWidth},
            center : BOOLEAN, generations : 1..MaxOrderGenerations] :
        a.distrib = "circular" => a.shape[2] <= MaxCloudDim}

CloudIdle ==
    /\ pcArgs = "idle"
    /\ cloud_x = <<>>
    /\ cloud_y = <<>>
    /\ seen = {}
    /\ active_set = {}
    /\ generation = 0
    /\ next_points = <<>>
    /\ pcPc = "idle"

\* point_cloud is called with arguments of `calls`.
CloudCalled(calls) ==
    /\ pcArgs \in calls
    /\ cloud_x = <<>>
    /\ cloud_y = <<>>
    /\ seen = {}
    /\ active_set = {}
    /\ generation = 0
    /\ next_points = <<>>
    /\ pcPc = "call"

CloudStart == CloudCalled(CloudArgs)

LatticeStart == CloudCalled(LatticeArgs)

OrderStart == CloudCalled(OrderArgs)

\* points.py 45-91: None is returned for a freq of 0; otherwise the outputs
\* are empty and the frontier and `seen` hold the seed.
CloudSeed ==
    /\ pcPc = "call"
    /\ IF pcArgs.freq = 0
       THEN /\ pcPc' = "return None"
            /\ UNCHANGED <<seen, active_set>>
       ELSE /\ seen' = {Seed(pcArgs)}
            /\ active_set' = {Seed(pcArgs)}
            /\ pcPc' = "while"
    /\ UNCHANGED <<pcArgs, cloud_x, cloud_y, generation, next_points, notCloud>>

\* The pop of an arbitrary element with the point function called for it
\* whatever its generation, as if points.py 96 were not there.
CloudPopUnlimited ==
    /\ pcPc = "while"
    /\ \E e \in active_set :
          /\ active_set' = active_set \ {e}
          /\ generation' = e[3]
          /\ \E draws \in PointDraws(pcArgs.freq, pcArgs.distrib) :
                /\ next_points' = NextPoints(pcArgs, e, draws)
                /\ pcPc' = IF next_points' = <<>> THEN "while" ELSE "for"
    /\ UNCHANGED <<pcArgs, cloud_x, cloud_y, seen, notCloud>>

\* points.py 93-103: an arbitrary element is popped from the frontier; the
\* point function is called for it unless its generation is over the limit.
CloudPop ==
    /\ pcPc = "while"
    /\ \E e \in active_set :
          /\ active_set' = active_set \ {e}
          /\ generation' = e[3]
          /\ IF e[3] <= pcArgs.generations
             THEN \E draws \in PointDraws(pcArgs.freq, pcArgs.distrib) :
                     /\ next_points' = NextPoints(pcArgs, e, draws)
                     /\ pcPc' = IF next_points' = <<>> THEN "while" ELSE "for"
             ELSE /\ next_points' = <<>>
                  /\ pcPc' = "while"
    /\ UNCHANGED <<pcArgs, cloud_x, cloud_y, seen, notCloud>>

\* points.py 105-121, one pass of the loop over the points returned: with a
\* shape the point is truncated to a pixel and skipped if the pixel is in
\* `seen`; otherwise it joins the frontier and the outputs.
CloudPoint ==
    /\ pcPc = "for"
    /\ LET point == IF pcArgs.shape = <<>> THEN Head(next_points)
                    ELSE <<FlTrunc(Head(next_points)[1]), FlTrunc(Head(next_points)[2])>>
           xy == AppendPoint(<<cloud_x, cloud_y>>, point)
       IN  IF pcArgs.shape # <<>> /\ point \in seen
           THEN UNCHANGED <<seen, active_set, cloud_x, cloud_y>>
           ELSE /\ seen' = IF pcArgs.shape # <<>> THEN seen \cup {point} ELSE seen
                /\ active_set' = active_set \cup {<<point[1], point[2], generation + 1>>}
                /\ cloud_x' = xy[1]
                /\ cloud_y' = xy[2]
    /\ next_points' = Tail(next_points)
    /\ pcPc' = IF Tail(next_points) = <<>> THEN "while" ELSE "for"
    /\ UNCHANGED <<pcArgs, generation, notCloud>>

\* points.py 93, 123: the frontier is empty, (x, y) is returned.
CloudReturn ==
    /\ pcPc = "while"
    /\ active_set = {}
    /\ pcPc' = "return"
    /\ UNCHANGED <<pcArgs, cloud_x, cloud_y, seen, active_set, generation, next_points,
                   notCloud>>

(***************************************************************************)
(* Claims about point_cloud.                                               *)
(***************************************************************************)

\* The points returned so far, as a set of <<x, y>>.
CloudPoints == {<<cloud_x[i], cloud_y[i]>> : i \in 1..Len(cloud_x)}

\* C2: for every freq, distribution, shape, center flag and generations,
\* point_cloud returns a pair of sequences (it does not return None), and at
\* every step of the run the two output sequences have the same length.
C2_EqualLengths ==
    /\ pcPc # "return None"
    /\ Len(cloud_x) = Len(cloud_y)

\* C2 as it holds of the code: for every freq other than 0 the call does not
\* return None and the two output sequences have the same length at every
\* step; for freq = 0 the call returns None at once, with no sequences.
C2_EqualLengthsForNonzeroFreq ==
    /\ pcArgs.freq # 0 => (pcPc # "return None" /\ Len(cloud_x) = Len(cloud_y))
    /\ pcArgs.freq = 0 => (pcPc \in {"call", "return None"} /\ active_set = {})

\* A call with two generations has returned several points.
C2_Witness ==
    /\ pcPc = "return"
    /\ pcArgs.generations = 2
    /\ Len(cloud_x) > 2
    /\ Len(cloud_y) = Len(cloud_x)

\* The grid indices (a, b) of the lattice points: all of them for square,
\* those not both even for waffle.
LatticeCells ==
    {c \in (0..(pcArgs.freq - 1)) \X (0..(pcArgs.freq - 1)) :
        pcArgs.distrib = "waffle" => ~(c[1] % 2 = 0 /\ c[2] % 2 = 0)}

\* C5: with generations = 1 on a shape whose width and height are multiples
\* of freq, the square distribution returns exactly freq * freq distinct
\* points that form a lattice of spacing width/freq by height/freq (from some
\* offset within the first cell), and the waffle distribution exactly the
\* points of that lattice whose grid indices are not both even.
C5_SquareAndWaffleLattice ==
    pcPc = "return" =>
        LET sx == pcArgs.shape[2] \div pcArgs.freq
            sy == pcArgs.shape[1] \div pcArgs.freq
        IN  /\ Len(cloud_x) = Cardinality(LatticeCells)
            /\ \E ox \in 0..(sx - 1), oy \in 0..(sy - 1) :
                  CloudPoints = {<<ox + c[1] * sx, oy + c[2] * sy>> : c \in LatticeCells}

\* C10: when a pixel shape is given, at every step of the run the output
\* pairs are pairwise distinct and each is in `seen`, and there are at most
\* width * height of them.
C10_NoPixelTwice ==
    pcArgs.shape # <<>> =>
        /\ \A i, j \in 1..Len(cloud_x) :
              (cloud_x[i] = cloud_x[j] /\ cloud_y[i] = cloud_y[j]) => i = j
        /\ CloudPoints \subseteq seen
        /\ Len(cloud_x) <= pcArgs.shape[1] * pcArgs.shape[2]

\* What holds of the code of C10: no pixel is put out twice, and every one is
\* in `seen`.
C10_DistinctAndSeen ==
    pcArgs.shape # <<>> =>
        /\ \A i, j \in 1..Len(cloud_x) :
              (cloud_x[i] = cloud_x[j] /\ cloud_y[i] = cloud_y[j]) => i = j
        /\ CloudPoints \subseteq seen

\* What breaks the bound of C10: a coordinate equal to the width or height.
C10_PixelsInShape ==
    pcArgs.shape # <<>> =>
        \A p \in CloudPoints : /\ 0 <= p[1] /\ p[1] < pcArgs.shape[2]
                               /\ 0 <= p[2] /\ p[2] < pcArgs.shape[1]

\* The frontier is as it was seeded: nothing has been popped from it yet.
JustSeeded == pcPc = "while" /\ generation = 0

\* The triple at the centre of the image, (width / 2, height / 2), and the one
\* at the origin, both of generation 1.
CenterTriple ==
    <<TrueDiv(FlFromInt(CloudWidth(pcArgs.shape)), 2),
      TrueDiv(FlFromInt(CloudHeight(pcArgs.shape)), 2), 1>>

OriginTriple == <<Zero, Zero, 1>>

\* C11: the frontier is seeded with exactly one triple of generation 1, at
\* the centre of the image (width / 2, height / 2), or at the origin (0, 0)
\* for a circular or other non-grid distribution when center is false.
C11_SeedAtCenterOrOrigin ==
    JustSeeded =>
        active_set = {IF ~is_grid(pcArgs.distrib) /\ ~pcArgs.center
                      THEN OriginTriple ELSE CenterTriple}

\* C11 as it holds of the code: the frontier is seeded with exactly one triple
\* of generation 1, at the origin (0.0, 0.0) for the grid distributions
\* (square, waffle, chess, h_hex, v_hex) and at the centre of the image for
\* all others, whatever the center flag; `seen` holds the same triple.
C11_SeedAtOriginForGrids ==
    JustSeeded =>
        /\ Cardinality(active_set) = 1
        /\ active_set = {IF is_grid(pcArgs.distrib) THEN OriginTriple ELSE CenterTriple}
        /\ seen = active_set

\* A grid distribution with center = true has been seeded at the origin.
C11_Witness ==
    /\ JustSeeded
    /\ is_grid(pcArgs.distrib)
    /\ pcArgs.center
    /\ pcArgs.shape # <<>>
    /\ active_set = {OriginTriple}

\* The pixels the points of one call of the point function are truncated to.
PixelsOf(returned) == {<<FlTrunc(q[1]), FlTrunc(q[2])>> : q \in Range(returned)}

\* The pixels a run returns that pops the frontier generation by generation:
\* `level` is the frontier, all of generation g, and `pixels` what was put
\* out so far. (The order within a generation makes no difference: every
\* element of the level is expanded, or none is.)
RECURSIVE BreadthFirst(_, _, _, _)
BreadthFirst(args, level, g, pixels) ==
    IF g > args.generations \/ level = {} THEN pixels
    ELSE LET fresh == UNION {PixelsOf(NextPoints(args, e, <<>>)) : e \in level} \ pixels
         IN  BreadthFirst(args, {<<p[1], p[2], g + 1>> : p \in fresh}, g + 1,
                          pixels \cup fresh)

\* C12: for a distribution without random draws and a given pixel shape,
\* freq, center flag and generations, the set of points returned is the same
\* for every order in which the frontier is popped: it is the set the run
\* that pops generation by generation returns.
C12_PointSetIndependentOfPopOrder ==
    pcPc = "return" => CloudPoints = BreadthFirst(pcArgs, {Seed(pcArgs)}, 1, {})

\* What holds of the code of C12: the same, with at most two generations.
C12_IndependentUpToTwoGenerations ==
    (pcPc = "return" /\ pcArgs.generations <= 2)
        => CloudPoints = BreadthFirst(pcArgs, {Seed(pcArgs)}, 1, {})

\* No element of the frontier has a generation above generations + 1.
GenerationsBounded ==
    pcArgs.freq >= 1 => \A e \in active_set : e[3] <= pcArgs.generations + 1

\* An element popped with a generation above the limit is dropped: the point
\* function is not called for it, and the outputs and `seen` stay as they are.
DroppedOverLimit ==
    (/\ pcArgs.freq >= 1
     /\ pcPc = "while"
     /\ active_set' # active_set
     /\ generation' > pcArgs.generations)
        => /\ next_points' = <<>>
           /\ pcPc' = "while"
           /\ UNCHANGED <<cloud_x, cloud_y, seen>>

RunningCanStep == pcPc = "for" => next_points # <<>>

(***************************************************************************)
(* Specifications.                                                         *)
(***************************************************************************)

InitPost == PostStart /\ ConvIdle /\ WarpIdle /\ WormIdle /\ CloudIdle

NextPost ==
    \/ PostRefract
    \/ PostReindex
    \/ PostClut
    \/ PostWorms
    \/ PostDeriv
    \/ PostSobel
    \/ PostNormalMap

SpecPost == InitPost /\ [][NextPost]_vars

InitConv == ConvStart /\ PostIdle /\ WarpIdle /\ WormIdle /\ CloudIdle

NextConv ==
    \/ ConvTile
    \/ ConvCrop2
    \/ ConvDepthwise
    \/ ConvCrop1
    \/ ConvNormalize
    \/ ConvEdges

SpecConv == InitConv /\ [][NextConv]_vars

InitWarp == WarpStart /\ PostIdle /\ ConvIdle /\ WormIdle /\ CloudIdle

NextWarp ==
    \/ WarpValueMap
    \/ Reindex
    \/ RefractReferenceY
    \/ Refract

SpecWarp == InitWarp /\ [][NextWarp]_vars

InitWorm == WormStart /\ PostIdle /\ ConvIdle /\ WarpIdle /\ CloudIdle

NextWorm ==
    \/ WormSpawn
    \/ WormLoop
    \/ WormScatter
    \/ WormAccumulate
    \/ WormMove
    \/ WormAssign
    \/ WormNormalize

SpecWorm == InitWorm /\ [][NextWorm]_vars

InitCloud == CloudStart /\ PostIdle /\ ConvIdle /\ WarpIdle /\ WormIdle

NextCloud ==
    \/ CloudSeed
    \/ CloudPop
    \/ CloudPoint
    \/ CloudReturn

SpecCloud == InitCloud /\ [][NextCloud]_vars

InitLattice == LatticeStart /\ PostIdle /\ ConvIdle /\ WarpIdle /\ WormIdle

SpecLattice == InitLattice /\ [][NextCloud]_vars

InitOrder == OrderStart /\ PostIdle /\ ConvIdle /\ WarpIdle /\ WormIdle

SpecOrder == InitOrder /\ [][NextCloud]_vars

\* A call of point_cloud that has not returned can take a step: the seeding
\* after the call, a pop or the return at the head of the while loop, a point
\* of next_points in the for loop (which is entered with points left only).
CloudRunning == pcPc \in {"call", "while", "for"}

\* point_cloud runs on until it returns: one thread executes it, and a step
\* that can be taken is taken. This is WF_vars(NextCloud) written out, with
\* CloudRunning for ENABLED <<NextCloud>>_vars.
SpecCloudLive == SpecCloud /\ ([]<>(~CloudRunning) \/ []<><<NextCloud>>_vars)

====
